---- MODULE Spec2Model ----
(***************************************************************************)
(* ProcessJobRunner (kubeflow/trainer/job_runners/process_job_runner.py):  *)
(* a local runner that spawns one OS process per node of a training job,   *)
(* keeps the jobs in an in-memory registry, derives job status by polling  *)
(* the processes, reads or follows their captured output and tears jobs    *)
(* down with SIGTERM / grace period / SIGKILL.                             *)
(*                                                                         *)
(* Specifications:                                                         *)
(*   Spec       one caller thread drives the runner; the node processes    *)
(*              exit on their own at any point (also between the steps of  *)
(*              create_job and delete_job).                                *)
(*   SpecStatus _get_job_status applied to every bounded status sequence.  *)
(*   SpecConc   a second caller thread inspects the registry while the     *)
(*              first one creates jobs.                                    *)
(*   SpecFollow get_job_logs(follow=True): the two tail readers against a  *)
(*              node process that writes and exits; SpecFollowFair adds    *)
(*              fair scheduling of the threads.                            *)
(*   SpecLogs   get_job_logs(follow=False) against such a process.         *)
(*   SpecRead   SpecLogs with capture files that are removed or cannot be  *)
(*              read.                                                      *)
(*   SpecFiles  one caller creates, inspects, reads, follows and deletes   *)
(*              a job whose node writes.                                   *)
(*   SpecFollowDelete  a follow call of one caller against a delete_job    *)
(*              of another for the same job, scheduled fairly.             *)
(*   SpecDeleteTwice   two callers in delete_job for a job of one node.    *)
(*   SpecNode   a second caller thread calls get_job while the first       *)
(*              creates a job and deletes it.                              *)
(*   SpecBuild  the command and environment _start_node_process builds,    *)
(*              for every input of a bounded set.                          *)
(***************************************************************************)
EXTENDS Integers, Sequences, FiniteSets, TLC

VARIABLES
    active_jobs,   \* self._active_jobs: job name -> job record
    job_logs,      \* self._job_logs: its key set (the values stay {})
    procs,         \* the Popen objects alive: pid -> [exited, returncode, env]
    fs,            \* the filesystem: path -> file content (directories: <<>>)
    names_made,    \* how many names generate_train_job_name has handed out
    pc,            \* per caller thread: where it is inside a runner call
    ret,           \* what the step just taken returned to its caller, if it returned
    teardown,      \* history: pid -> what delete_job has done to it, in order
    status_in,     \* SpecStatus: the container statuses handed over
    status_out,    \* SpecStatus: what _get_job_status returned for them
    tail,          \* follow: per stream, where its tail_file thread is
    follow_logs,   \* follow: the logs dict of the call, its one key
    printed,       \* follow: per stream, the lines its tail_file thread printed
    build_in,      \* SpecBuild: the input of _start_node_process
    build_out      \* SpecBuild: <<>>, then the (argv, env) built from build_in

vars == <<active_jobs, job_logs, procs, fs, names_made, pc, ret, teardown, status_in, status_out,
          tail, follow_logs, printed, build_in, build_out>>

runner_vars == <<active_jobs, job_logs, procs, fs, names_made, pc, ret, teardown,
                 tail, follow_logs, printed>>

\* what a tail_file thread leaves alone
runner_state == <<active_jobs, job_logs, procs, fs, names_made, pc, teardown>>

status_vars == <<status_in, status_out>>

follow_vars == <<tail, follow_logs, printed>>

build_vars == <<build_in, build_out>>

-----------------------------------------------------------------------------
(* Bounds of the model *)

\* jobs created over a run (names handed out)
MaxJobs == 2

\* largest num_nodes a caller passes
MaxNodes == 2

\* node processes the runner holds at a time
MaxProcs == 2

\* longest status sequence handed to _get_job_status in SpecStatus
MaxStatusLen == 4

\* characters a node process writes to one stream
MaxWrite == 2

-----------------------------------------------------------------------------
(* Values *)

None == "None"

Threads == {1, 2}

\* types.Framework: the two create_job accepts and one it does not
TORCH == "torch"

TORCHTUNE == "torchtune"

Frameworks == {TORCH, TORCHTUNE, "deepspeed"}

Runtimes == {"rt-a", "rt-b"}

\* the (framework, runtime_name) pairs callers pass to create_job
JobKinds == {<<TORCH, "rt-a">>, <<TORCHTUNE, "rt-b">>, <<"deepspeed", "rt-a">>}

SIGTERM == "SIGTERM"

SIGKILL == "SIGKILL"

JobNames == 1..MaxJobs

\* node_rank arguments a caller may pass, valid or not
RankArgs == (0 - MaxNodes)..MaxNodes

\* the two captured streams of a node process
Streams == {"stdout", "stderr"}

Idle == [op |-> "idle"]

NoRet == [op |-> "none", outcome |-> "none", thread |-> 0]

-----------------------------------------------------------------------------
(* The OS process behind a Popen handle *)

\* process.poll() is None: the process has not terminated
poll_is_None(p) == ~procs[p].exited

\* subprocess.Popen succeeded: the pid of the new process, the lowest one free
Popen == CHOOSE p \in 1..(Cardinality(DOMAIN procs) + 1) :
            /\ p \notin DOMAIN procs
            /\ \A q \in 1..(p - 1) : q \in DOMAIN procs

\* mutant of _get_process_status: only a positive return code counts as a failure
_get_process_status_positive(p) ==
    IF poll_is_None(p) THEN "running"
    ELSE IF procs[p].returncode <= 0 THEN "exited"
    ELSE "failed"

\* _get_process_status: a non-blocking poll, then the return code
_get_process_status(p) ==
    IF poll_is_None(p) THEN "running"
    ELSE IF procs[p].returncode = 0 THEN "exited"
    ELSE "failed"

\* mutant of _get_job_status: running is tested before failed
_get_job_status_running_first(statuses) ==
    IF Len(statuses) = 0 THEN "pending"
    ELSE IF \A i \in 1..Len(statuses) : statuses[i] = "exited" THEN "succeeded"
    ELSE IF \E i \in 1..Len(statuses) : statuses[i] = "running" THEN "running"
    ELSE IF \E i \in 1..Len(statuses) : statuses[i] = "failed" THEN "failed"
    ELSE "pending"

\* mutant of _get_job_status: any() where the code has all()
_get_job_status_any_exited(statuses) ==
    IF Len(statuses) = 0 THEN "pending"
    ELSE IF \E i \in 1..Len(statuses) : statuses[i] = "exited" THEN "succeeded"
    ELSE IF \E i \in 1..Len(statuses) : statuses[i] = "failed" THEN "failed"
    ELSE IF \E i \in 1..Len(statuses) : statuses[i] = "running" THEN "running"
    ELSE "pending"

\* _get_job_status over the containers' statuses, in the order of the code's tests
_get_job_status(statuses) ==
    IF Len(statuses) = 0 THEN "pending"
    ELSE IF \A i \in 1..Len(statuses) : statuses[i] = "exited" THEN "succeeded"
    ELSE IF \E i \in 1..Len(statuses) : statuses[i] = "failed" THEN "failed"
    ELSE IF \E i \in 1..Len(statuses) : statuses[i] = "running" THEN "running"
    ELSE "pending"

-----------------------------------------------------------------------------
(* Names and paths *)

\* a generator that hands out its first name over and over
generate_train_job_name_repeated == IF names_made = 0 THEN names_made + 1 ELSE names_made

\* utils.generate_train_job_name with the local prefix: a name never handed out before
generate_train_job_name == names_made + 1

\* every job in one directory, whatever its name
JobDir_shared(train_job_name) == <<1>>

\* self.working_dir / train_job_name
JobDir(train_job_name) == <<train_job_name>>

\* mutant of LogFile: the rank is left out of the file name
LogFile_no_rank(job_dir, node_rank, stream) == job_dir \o <<0, stream>>

\* job_dir / f"node-{node_rank}-stdout.log" and ...-stderr.log
LogFile(job_dir, node_rank, stream) == job_dir \o <<node_rank, stream>>

\* dict item assignment: d[k] = v
DictSet(d, k, v) == [x \in DOMAIN d \cup {k} |-> IF x = k THEN v ELSE d[x]]

\* del d[k]
DictDel(d, k) == [x \in DOMAIN d \ {k} |-> d[x]]

\* mutant of JobNotFound: no membership test, the dict lookup raises KeyError
JobNotFound_KeyError(op, job_name) ==
    [op |-> op, outcome |-> "KeyError", name |-> job_name]

\* raise RuntimeError(f"Job '{job_name}' not found")
JobNotFound(op, job_name) ==
    [op |-> op, outcome |-> "JobNotFound", name |-> job_name]

\* mutant of FrameworkSupported: no framework is turned away
FrameworkSupported_any(framework) == TRUE

\* the framework test at the top of create_job
FrameworkSupported(framework) == framework \in {TORCH, TORCHTUNE}

\* the step ends a call of thread t, which returns or raises r
Return(t, r) == ret' = r @@ [thread |-> t]

\* the step returns nothing to a caller
Silent == ret' = NoRet

\* thread t moves to another place of its call
Goto(t, where) == pc' = [pc EXCEPT ![t] = where]

-----------------------------------------------------------------------------
(* The command and the environment of a node process: _start_node_process up to
   Popen, _build_torchrun_command, _get_process_environment.
   A string is the sequence of its pieces, a piece being a character or a word
   that is never split. *)

\* the pieces the tests of _start_node_process look for
READ_R_D == "read -r -d"

TORCHRUN == "torchrun"

SPACE == " "

QUOTE == "\""

DOT_PY == ".py"

\* the decimal digits
DigitChar == <<"0", "1", "2", "3", "4", "5", "6", "7", "8", "9">>

RECURSIVE str(_)
\* str(n) of an int: its decimal digits, after a minus sign when negative
str(n) ==
    IF n < 0 THEN <<"-">> \o str(0 - n)
    ELSE IF n < 10 THEN <<DigitChar[n + 1]>>
    ELSE str(n \div 10) \o <<DigitChar[(n % 10) + 1]>>

RECURSIVE lstrip(_)
\* s.lstrip(): leading whitespace removed
lstrip(s) == IF s # <<>> /\ Head(s) = SPACE THEN lstrip(Tail(s)) ELSE s

RECURSIVE rstrip(_)
\* s.rstrip(): trailing whitespace removed
rstrip(s) ==
    IF s # <<>> /\ s[Len(s)] = SPACE THEN rstrip(SubSeq(s, 1, Len(s) - 1)) ELSE s

\* s.strip()
strip(s) == lstrip(rstrip(s))

\* s.startswith(prefix)
startswith(s, prefix) ==
    Len(s) >= Len(prefix) /\ SubSeq(s, 1, Len(prefix)) = prefix

\* s.endswith(suffix)
endswith(s, suffix) ==
    Len(s) >= Len(suffix) /\ SubSeq(s, Len(s) - Len(suffix) + 1, Len(s)) = suffix

\* sub in s
contains(s, sub) ==
    \E i \in 1..(Len(s) - Len(sub) + 1) : SubSeq(s, i, i + Len(sub) - 1) = sub

RECURSIVE replace(_, _, _)
\* s.replace(old, new): every occurrence of old, from the left, not overlapping
replace(s, old, new) ==
    IF s = <<>> THEN <<>>
    ELSE IF startswith(s, old)
    THEN new \o replace(SubSeq(s, Len(old) + 1, Len(s)), old, new)
    ELSE <<Head(s)>> \o replace(Tail(s), old, new)

\* self.python_executable of the runner the build runs in
python_executable == build_in.python_executable

\* os.environ when the build runs
os_environ == build_in.environ

\* the names of the two job-identifying variables
CONTAINER_TRAIN_JOB_NAME_LABEL == "CONTAINER_TRAIN_JOB_NAME_LABEL"

LOCAL_NODE_RANK_LABEL == "LOCAL_NODE_RANK_LABEL"

\* "29500"
MASTER_PORT == <<"2", "9", "5", "0", "0">>

\* d.update(e): the entries of e laid over those of d
DictUpdate(d, e) == [k \in DOMAIN d \cup DOMAIN e |-> IF k \in DOMAIN e THEN e[k] ELSE d[k]]

\* mutant of TorchEnvironment: RANK is the local rank, 0 on every node
TorchEnvironment_local_rank(head_node_address, num_nodes, node_rank) ==
    [NNODES |-> str(num_nodes),
     NPROC_PER_NODE |-> <<"1">>,
     NODE_RANK |-> str(node_rank),
     MASTER_ADDR |-> head_node_address,
     MASTER_PORT |-> MASTER_PORT,
     RANK |-> <<"0">>,
     LOCAL_RANK |-> <<"0">>,
     WORLD_SIZE |-> str(num_nodes)]

\* the eight variables _get_process_environment sets for Framework.TORCH
TorchEnvironment(head_node_address, num_nodes, node_rank) ==
    [NNODES |-> str(num_nodes),
     NPROC_PER_NODE |-> <<"1">>,
     NODE_RANK |-> str(node_rank),
     MASTER_ADDR |-> head_node_address,
     MASTER_PORT |-> MASTER_PORT,
     RANK |-> str(node_rank),
     LOCAL_RANK |-> <<"0">>,
     WORLD_SIZE |-> str(num_nodes)]

\* the distributed-training variables set for every framework
_get_process_environment_any_framework(framework, head_node_address, num_nodes, node_rank, train_job_name) ==
    DictSet(
        DictSet(
            TorchEnvironment(head_node_address, num_nodes, node_rank),
            CONTAINER_TRAIN_JOB_NAME_LABEL, <<train_job_name>>),
        LOCAL_NODE_RANK_LABEL, str(node_rank))

\* _get_process_environment
_get_process_environment(framework, head_node_address, num_nodes, node_rank, train_job_name) ==
    DictSet(
        DictSet(
            IF framework = TORCH
            THEN TorchEnvironment(head_node_address, num_nodes, node_rank)
            ELSE <<>>,
            CONTAINER_TRAIN_JOB_NAME_LABEL, <<train_job_name>>),
        LOCAL_NODE_RANK_LABEL, str(node_rank))

\* the flag f"{name}{value}"
Flag(name, value) == <<name>> \o value

\* _build_torchrun_command: the interpreter, -m torch.distributed.run, five flags,
\* then the command; the entrypoint is not used
_build_torchrun_command(entrypoint, command, num_nodes, node_rank) ==
    <<python_executable, <<"-m">>, <<"torch.distributed.run">>,
      <<"--nproc_per_node=1">>,
      Flag("--nnodes=", str(num_nodes)),
      Flag("--node_rank=", str(node_rank)),
      <<"--master_addr=localhost">>,
      Flag("--master_port=", MASTER_PORT)>> \o command

\* the first test of _start_node_process: bash -c with a script that starts with
\* read -r -d and names torchrun
IsWrappedShell(entrypoint, command) ==
    /\ entrypoint = <<<<"bash">>, <<"-c">>>>
    /\ Len(command) > 0
    /\ startswith(strip(command[1]), <<READ_R_D>>)
    /\ contains(command[1], <<TORCHRUN>>)

\* the second test: the entrypoint starts with torchrun and there is a command
IsBareLauncher(entrypoint, command) ==
    /\ Len(entrypoint) > 0
    /\ entrypoint[1] = <<TORCHRUN>>
    /\ Len(command) > 0

\* the third test: an entrypoint, and a command whose first token ends in .py
IsPlainScript(entrypoint, command) ==
    /\ Len(entrypoint) > 0
    /\ Len(command) > 0
    /\ endswith(command[1], <<DOT_PY>>)

\* original_script.replace('torchrun "', f'{self.python_executable} -m torch.distributed.run "')
modified_script(original_script) ==
    replace(original_script, <<TORCHRUN, SPACE, QUOTE>>,
            python_executable \o <<SPACE, "-m", SPACE, "torch.distributed.run", SPACE, QUOTE>>)

\* full_command with the .py test ahead of the torchrun test
full_command_script_first(entrypoint, command, num_nodes, node_rank) ==
    IF IsWrappedShell(entrypoint, command)
    THEN <<<<"bash">>, <<"-c">>, modified_script(command[1])>>
    ELSE IF IsPlainScript(entrypoint, command)
    THEN <<python_executable>> \o command
    ELSE IF IsBareLauncher(entrypoint, command)
    THEN _build_torchrun_command(entrypoint, command, num_nodes, node_rank)
    ELSE entrypoint \o command

\* full_command of _start_node_process
full_command(entrypoint, command, num_nodes, node_rank) ==
    IF IsWrappedShell(entrypoint, command)
    THEN <<<<"bash">>, <<"-c">>, modified_script(command[1])>>
    ELSE IF IsBareLauncher(entrypoint, command)
    THEN _build_torchrun_command(entrypoint, command, num_nodes, node_rank)
    ELSE IF IsPlainScript(entrypoint, command)
    THEN <<python_executable>> \o command
    ELSE entrypoint \o command

\* env made of the runner's variables alone, os.environ dropped
process_env_not_inherited(framework, num_nodes, node_rank, train_job_name) ==
    _get_process_environment(framework, <<"localhost">>, num_nodes,
                             node_rank, train_job_name)

\* env of _start_node_process: a copy of os.environ, updated
process_env(framework, num_nodes, node_rank, train_job_name) ==
    DictUpdate(os_environ,
               _get_process_environment(framework, <<"localhost">>, num_nodes,
                                        node_rank, train_job_name))

-----------------------------------------------------------------------------
(* create_job *)

\* create_job up to the spawn loop: framework test, name, job directory, registry insert
create_job(t, framework, num_nodes, runtime_name) ==
    /\ pc[t] = Idle
    /\ IF ~FrameworkSupported(framework)
       THEN /\ Return(t, [op |-> "create_job", outcome |-> "UnsupportedFramework",
                          framework |-> framework])
            /\ UNCHANGED <<active_jobs, job_logs, procs, fs, names_made, pc,
                           teardown>>
       ELSE /\ names_made < MaxJobs
            /\ Cardinality(DOMAIN procs) + num_nodes <= MaxProcs
            /\ LET train_job_name == generate_train_job_name
                   job_dir == JobDir(train_job_name)
               IN /\ names_made' = names_made + 1
                  /\ fs' = IF job_dir \in DOMAIN fs THEN fs ELSE DictSet(fs, job_dir, <<>>)
                  /\ active_jobs' = DictSet(active_jobs, train_job_name,
                         [creation_timestamp |-> names_made + 1,
                          runtime_name |-> runtime_name,
                          image |-> "image",
                          processes |-> <<>>,
                          num_nodes |-> num_nodes,
                          framework |-> framework,
                          job_dir |-> job_dir,
                          status |-> "Starting"])
                  /\ job_logs' = job_logs \cup {train_job_name}
                  /\ Goto(t, [op |-> "create_job", name |-> train_job_name,
                              node_rank |-> 0, num_nodes |-> num_nodes,
                              framework |-> framework])
            /\ Silent
            /\ UNCHANGED <<procs, teardown>>
    /\ UNCHANGED <<status_vars, follow_vars, build_vars>>

\* _start_node_process: open both log files for writing, then Popen; the process_info
\* it returns (spawned = TRUE), or the files alone when Popen raises
_start_node_process(job_dir, node_rank) ==
    [stdout_file |-> LogFile(job_dir, node_rank, "stdout"),
     stderr_file |-> LogFile(job_dir, node_rank, "stderr"),
     process_info |-> [process |-> Popen,
                       node_rank |-> node_rank,
                       stdout_file |-> LogFile(job_dir, node_rank, "stdout"),
                       stderr_file |-> LogFile(job_dir, node_rank, "stderr"),
                       status |-> "Running"]]

\* a spawn loop that takes the job back when Popen raises
create_job_spawn_rollback(t, spawned) ==
    /\ pc[t].op = "create_job"
    /\ pc[t].node_rank < pc[t].num_nodes
    /\ LET name == pc[t].name
           started == _start_node_process(JobDir(name), pc[t].node_rank)
       IN /\ fs' = DictSet(DictSet(fs, started.stdout_file, <<>>), started.stderr_file, <<>>)
          /\ IF ~spawned
             THEN /\ Return(t, [op |-> "create_job", outcome |-> "OSError", name |-> name])
                  /\ Goto(t, Idle)
                  /\ active_jobs' = DictDel(active_jobs, name)
                  /\ UNCHANGED <<procs, teardown>>
             ELSE IF name \in DOMAIN active_jobs
             THEN /\ procs' = DictSet(procs, Popen,
                                      [exited |-> FALSE, returncode |-> 0,
                                       env |-> process_env(pc[t].framework, pc[t].num_nodes,
                                                           pc[t].node_rank, name)])
                  /\ teardown' = DictSet(teardown, Popen, <<>>)
                  /\ active_jobs' = [active_jobs EXCEPT ![name].processes =
                                        Append(@, started.process_info)]
                  /\ Goto(t, [pc[t] EXCEPT !.node_rank = @ + 1])
                  /\ Silent
             ELSE /\ Return(t, [op |-> "create_job", outcome |-> "KeyError", name |-> name])
                  /\ Goto(t, Idle)
                  /\ UNCHANGED <<procs, teardown, active_jobs>>
    /\ UNCHANGED <<job_logs, names_made, status_vars, follow_vars, build_vars>>

\* one round of the spawn loop of create_job: _start_node_process, then the append
\* to the registry record. Popen may raise (OSError), which ends create_job; the
\* append raises KeyError when the entry is gone (another thread deleted it), and
\* the Popen object just made is dropped
create_job_spawn(t, spawned) ==
    /\ pc[t].op = "create_job"
    /\ pc[t].node_rank < pc[t].num_nodes
    /\ LET name == pc[t].name
           started == _start_node_process(JobDir(name), pc[t].node_rank)
       IN /\ fs' = DictSet(DictSet(fs, started.stdout_file, <<>>), started.stderr_file, <<>>)
          /\ IF ~spawned
             THEN /\ Return(t, [op |-> "create_job", outcome |-> "OSError", name |-> name])
                  /\ Goto(t, Idle)
                  /\ UNCHANGED <<procs, teardown, active_jobs>>
             ELSE IF name \in DOMAIN active_jobs
             THEN /\ procs' = DictSet(procs, Popen,
                                      [exited |-> FALSE, returncode |-> 0,
                                       env |-> process_env(pc[t].framework, pc[t].num_nodes,
                                                           pc[t].node_rank, name)])
                  /\ teardown' = DictSet(teardown, Popen, <<>>)
                  /\ active_jobs' = [active_jobs EXCEPT ![name].processes =
                                        Append(@, started.process_info)]
                  /\ Goto(t, [pc[t] EXCEPT !.node_rank = @ + 1])
                  /\ Silent
             ELSE /\ Return(t, [op |-> "create_job", outcome |-> "KeyError", name |-> name])
                  /\ Goto(t, Idle)
                  /\ UNCHANGED <<procs, teardown, active_jobs>>
    /\ UNCHANGED <<job_logs, names_made, status_vars, follow_vars, build_vars>>

\* create_job with the return inside the spawn loop
create_job_return_in_loop(t) ==
    /\ pc[t].op = "create_job"
    /\ IF pc[t].name \in DOMAIN active_jobs
       THEN /\ active_jobs' = [active_jobs EXCEPT ![pc[t].name].status = "Running"]
            /\ Return(t, [op |-> "create_job", outcome |-> "ok", name |-> pc[t].name])
       ELSE /\ UNCHANGED active_jobs
            /\ Return(t, [op |-> "create_job", outcome |-> "KeyError", name |-> pc[t].name])
    /\ Goto(t, Idle)
    /\ UNCHANGED <<job_logs, procs, fs, names_made, teardown, status_vars, follow_vars, build_vars>>

\* the end of create_job: status Running, the name is returned
create_job_return(t) ==
    /\ pc[t].op = "create_job"
    /\ pc[t].node_rank >= pc[t].num_nodes
    /\ IF pc[t].name \in DOMAIN active_jobs
       THEN /\ active_jobs' = [active_jobs EXCEPT ![pc[t].name].status = "Running"]
            /\ Return(t, [op |-> "create_job", outcome |-> "ok", name |-> pc[t].name])
       ELSE /\ UNCHANGED active_jobs
            /\ Return(t, [op |-> "create_job", outcome |-> "KeyError", name |-> pc[t].name])
    /\ Goto(t, Idle)
    /\ UNCHANGED <<job_logs, procs, fs, names_made, teardown, status_vars, follow_vars, build_vars>>

-----------------------------------------------------------------------------
(* get_job, list_jobs *)

\* the containers get_job builds for a job record: one per process_info, in order,
\* named f"{job_name}-{i}", with the status polled now
Containers(job_name, job_info) ==
    [i \in 1..Len(job_info.processes) |->
        [name |-> <<job_name, i - 1>>,
         status |-> _get_process_status(job_info.processes[i].process)]]

\* the statuses of a container list
Statuses(containers) == [i \in 1..Len(containers) |-> containers[i].status]

\* mutant of ContainerJob: the status stored in the registry is handed out
ContainerJob_cached(job_name, job_info) ==
    [name |-> job_name,
     creation_timestamp |-> job_info.creation_timestamp,
     runtime_name |-> job_info.runtime_name,
     containers |-> Containers(job_name, job_info),
     status |-> job_info.status]

\* the ContainerJob get_job returns for a registered job
ContainerJob(job_name, job_info) ==
    [name |-> job_name,
     creation_timestamp |-> job_info.creation_timestamp,
     runtime_name |-> job_info.runtime_name,
     containers |-> Containers(job_name, job_info),
     status |-> _get_job_status(Statuses(Containers(job_name, job_info)))]

\* a write-back that also stamps the record
Inspected_stamped(job_name, job_info) ==
    [job_info EXCEPT
        !.processes = [i \in 1..Len(job_info.processes) |->
                          [job_info.processes[i] EXCEPT
                              !.status = Containers(job_name, job_info)[i].status]],
        !.status = ContainerJob(job_name, job_info).status,
        !.creation_timestamp = 0]

\* what get_job writes back into the job record: each process_info's status and
\* the job's status
Inspected(job_name, job_info) ==
    [job_info EXCEPT
        !.processes = [i \in 1..Len(job_info.processes) |->
                          [job_info.processes[i] EXCEPT
                              !.status = Containers(job_name, job_info)[i].status]],
        !.status = ContainerJob(job_name, job_info).status]

\* get_job
get_job(t, job_name) ==
    /\ pc[t] = Idle
    /\ IF job_name \notin DOMAIN active_jobs
       THEN /\ Return(t, JobNotFound("get_job", job_name))
            /\ UNCHANGED active_jobs
       ELSE /\ active_jobs' = [active_jobs EXCEPT
                                  ![job_name] = Inspected(job_name, active_jobs[job_name])]
            /\ Return(t, [op |-> "get_job", outcome |-> "ok", name |-> job_name,
                          job |-> ContainerJob(job_name, active_jobs[job_name])])
    /\ UNCHANGED <<job_logs, procs, fs, names_made, pc, teardown, status_vars, follow_vars, build_vars>>

\* mutant of Selected: the filter is ignored
Selected_all(job_info, runtime_name) == TRUE

\* does list_jobs call get_job for this job: no filter, or the runtime_name matches
Selected(job_info, runtime_name) ==
    runtime_name = None \/ job_info.runtime_name = runtime_name

\* the keys a dict iterator still has to yield when the last one it yielded is
\* `last`: a dict keeps insertion order, and names are inserted in increasing order
KeysAfter(last) == {n \in DOMAIN active_jobs : n > last}

\* list_jobs: the iterator over self._active_jobs.keys() is made
list_jobs(t, runtime_name) ==
    /\ pc[t] = Idle
    /\ Goto(t, [op |-> "list_jobs", runtime_name |-> runtime_name, last |-> 0,
                used |-> Cardinality(DOMAIN active_jobs), jobs |-> <<>>])
    /\ Silent
    /\ UNCHANGED <<active_jobs, job_logs, procs, fs, names_made, teardown, status_vars, follow_vars, build_vars>>

\* one round of the loop of list_jobs: the iterator yields the next key (or raises
\* RuntimeError when the dict changed size since the iterator was made), the job
\* record is looked up and, when selected, get_job is called; after the last key
\* the list is returned
list_jobs_next(t) ==
    /\ pc[t].op = "list_jobs"
    /\ IF Cardinality(DOMAIN active_jobs) # pc[t].used
       THEN /\ Return(t, [op |-> "list_jobs", outcome |-> "RuntimeError",
                          runtime_name |-> pc[t].runtime_name])
            /\ Goto(t, Idle)
            /\ UNCHANGED active_jobs
       ELSE IF KeysAfter(pc[t].last) = {}
       THEN /\ Return(t, [op |-> "list_jobs", outcome |-> "ok",
                          runtime_name |-> pc[t].runtime_name, jobs |-> pc[t].jobs])
            /\ Goto(t, Idle)
            /\ UNCHANGED active_jobs
       ELSE LET job_name == CHOOSE n \in KeysAfter(pc[t].last) :
                                \A m \in KeysAfter(pc[t].last) : n <= m
            IN /\ Silent
               /\ IF Selected(active_jobs[job_name], pc[t].runtime_name)
                  THEN /\ active_jobs' = [active_jobs EXCEPT ![job_name] =
                                             Inspected(job_name, active_jobs[job_name])]
                       /\ Goto(t, [pc[t] EXCEPT
                                      !.last = job_name,
                                      !.jobs = Append(@, ContainerJob(job_name,
                                                            active_jobs[job_name]))])
                  ELSE /\ UNCHANGED active_jobs
                       /\ Goto(t, [pc[t] EXCEPT !.last = job_name])
    /\ UNCHANGED <<job_logs, procs, fs, names_made, teardown, status_vars, follow_vars, build_vars>>

-----------------------------------------------------------------------------
(* get_job_logs, follow=False *)

\* list[i] with Python's indexing: a negative i counts from the end; 0 when the
\* index is out of range (IndexError)
PyIndex(list, i) ==
    IF i >= 0
    THEN (IF i < Len(list) THEN i + 1 ELSE 0)
    ELSE (IF Len(list) + i >= 0 THEN Len(list) + i + 1 ELSE 0)

\* the rank test of get_job_logs: the one comparison the code makes
RankRejected(job_info, node_rank) == node_rank >= Len(job_info.processes)

\* a capture file read whole, "" when it does not exist
ReadFile(path) == IF path \in DOMAIN fs THEN fs[path] ELSE <<>>

\* the separator line get_job_logs puts before the stderr content
STDERR_SEPARATOR == "\n--- STDERR ---\n"

\* mutant of CombinedLogs: the separator section is added also for an empty stderr
CombinedLogs_always_separator(stdout_content, stderr_content) ==
    stdout_content \o <<STDERR_SEPARATOR>> \o stderr_content

\* stdout, then the separator and stderr when stderr is not empty
CombinedLogs(stdout_content, stderr_content) ==
    stdout_content \o
        (IF stderr_content # <<>>
         THEN <<STDERR_SEPARATOR>> \o stderr_content
         ELSE <<>>)

\* get_job_logs(job_name, follow=False, step, node_rank)
get_job_logs(t, job_name, step, node_rank) ==
    /\ pc[t] = Idle
    /\ LET call == [op |-> "get_job_logs", follow |-> FALSE, name |-> job_name,
                    node_rank |-> node_rank]
       IN IF job_name \notin DOMAIN active_jobs
          THEN Return(t, JobNotFound("get_job_logs", job_name) @@ call)
          ELSE LET job_info == active_jobs[job_name]
                   i == PyIndex(job_info.processes, node_rank)
               IN IF RankRejected(job_info, node_rank)
                  THEN Return(t, call @@ [outcome |-> "NodeRankNotFound"])
                  ELSE IF i = 0
                  THEN Return(t, call @@ [outcome |-> "IndexError"])
                  ELSE Return(t, call @@
                          [outcome |-> "ok",
                           key |-> <<step, node_rank>>,
                           stdout_file |-> job_info.processes[i].stdout_file,
                           stderr_file |-> job_info.processes[i].stderr_file,
                           logs |-> CombinedLogs(
                                       ReadFile(job_info.processes[i].stdout_file),
                                       ReadFile(job_info.processes[i].stderr_file))])
    /\ UNCHANGED <<active_jobs, job_logs, procs, fs, names_made, pc, teardown,
                   status_vars, follow_vars, build_vars>>

\* what str(e) gives for the exception of a failed open or read
READ_EXCEPTION == "[Errno 13] Permission denied"

\* f"Error reading logs: {str(e)}"
ErrorReadingLogs(e) == <<"Error reading logs: ", e>>

\* get_job_logs with the exception of the read passed on to the caller
get_job_logs_read_error_raised(t, job_name, step, node_rank) ==
    /\ pc[t] = Idle
    /\ job_name \in DOMAIN active_jobs
    /\ ~RankRejected(active_jobs[job_name], node_rank)
    /\ PyIndex(active_jobs[job_name].processes, node_rank) # 0
    /\ LET process_info ==
              active_jobs[job_name].processes[PyIndex(active_jobs[job_name].processes,
                                                      node_rank)]
       IN /\ process_info.stdout_file \in DOMAIN fs \/ process_info.stderr_file \in DOMAIN fs
          /\ Return(t, [op |-> "get_job_logs", follow |-> FALSE, name |-> job_name,
                        node_rank |-> node_rank, outcome |-> "PermissionError"])
    /\ UNCHANGED <<active_jobs, job_logs, procs, fs, names_made, pc, teardown,
                   status_vars, follow_vars, build_vars>>

\* get_job_logs(job_name, follow=False, step, node_rank) when open() or read() of
\* a capture file that exists raises: the except branch stores the error text
\* under the key and the dict is returned
get_job_logs_read_error(t, job_name, step, node_rank) ==
    /\ pc[t] = Idle
    /\ job_name \in DOMAIN active_jobs
    /\ ~RankRejected(active_jobs[job_name], node_rank)
    /\ PyIndex(active_jobs[job_name].processes, node_rank) # 0
    /\ LET process_info ==
              active_jobs[job_name].processes[PyIndex(active_jobs[job_name].processes,
                                                      node_rank)]
       IN /\ process_info.stdout_file \in DOMAIN fs \/ process_info.stderr_file \in DOMAIN fs
          /\ Return(t, [op |-> "get_job_logs", follow |-> FALSE, name |-> job_name,
                        node_rank |-> node_rank, outcome |-> "ok",
                        key |-> <<step, node_rank>>,
                        stdout_file |-> process_info.stdout_file,
                        stderr_file |-> process_info.stderr_file,
                        logs |-> ErrorReadingLogs(READ_EXCEPTION)])
    /\ UNCHANGED <<active_jobs, job_logs, procs, fs, names_made, pc, teardown,
                   status_vars, follow_vars, build_vars>>

-----------------------------------------------------------------------------
(* delete_job *)

\* one more entry in the teardown history of process p
Note(p, what) == teardown' = [teardown EXCEPT ![p] = Append(@, what)]

\* what a poll of process p finds, for the history
Polled(p) == IF poll_is_None(p) THEN "alive" ELSE "dead"

\* delete_job: the lookup; job_info["processes"] is held by the loop from here on
delete_job(t, job_name) ==
    /\ pc[t] = Idle
    /\ IF job_name \notin DOMAIN active_jobs
       THEN /\ Return(t, JobNotFound("delete_job", job_name))
            /\ UNCHANGED pc
       ELSE /\ Goto(t, [op |-> "delete_job", name |-> job_name, at |-> "poll", i |-> 1,
                        processes |-> [k \in 1..Len(active_jobs[job_name].processes) |->
                                          active_jobs[job_name].processes[k].process]])
            /\ Silent
    /\ UNCHANGED <<active_jobs, job_logs, procs, fs, names_made, teardown, status_vars, follow_vars, build_vars>>

\* the process the teardown loop of thread t is at
Current(t) == pc[t].processes[pc[t].i]

\* the loop goes on to the next process_info
NextProcess(t) == Goto(t, [pc[t] EXCEPT !.at = "poll", !.i = @ + 1])

\* does delete_job signal this process at all: the first poll
FoundRunning(p) == poll_is_None(p)

\* mutant of StillAlive: SIGKILL follows the grace period whatever the poll says
StillAlive_unchecked(p) == TRUE

\* does delete_job go on to send SIGKILL after the grace period: the second poll
StillAlive(p) == poll_is_None(p)

\* the loop head of delete_job: if process.poll() is None
delete_job_poll(t) ==
    /\ pc[t].op = "delete_job" /\ pc[t].at = "poll"
    /\ pc[t].i <= Len(pc[t].processes)
    /\ Note(Current(t), Polled(Current(t)))
    /\ IF FoundRunning(Current(t))
       THEN Goto(t, [pc[t] EXCEPT !.at = "term"])
       ELSE NextProcess(t)
    /\ Silent
    /\ UNCHANGED <<active_jobs, job_logs, procs, fs, names_made, status_vars, follow_vars, build_vars>>

\* mutant of delete_job_term: no except clause, the OSError ends delete_job
delete_job_term_uncaught(t, delivered) ==
    /\ pc[t].op = "delete_job" /\ pc[t].at = "term"
    /\ IF delivered
       THEN Note(Current(t), SIGTERM) /\ Goto(t, [pc[t] EXCEPT !.at = "sleep"]) /\ Silent
       ELSE /\ Note(Current(t), "OSError")
            /\ Goto(t, Idle)
            /\ Return(t, [op |-> "delete_job", outcome |-> "OSError", name |-> pc[t].name])
    /\ UNCHANGED <<active_jobs, job_logs, procs, fs, names_made, status_vars, follow_vars, build_vars>>

\* os.killpg(os.getpgid(process.pid), SIGTERM); an OSError skips the rest of the try
delete_job_term(t, delivered) ==
    /\ pc[t].op = "delete_job" /\ pc[t].at = "term"
    /\ IF delivered
       THEN Note(Current(t), SIGTERM) /\ Goto(t, [pc[t] EXCEPT !.at = "sleep"])
       ELSE Note(Current(t), "OSError") /\ NextProcess(t)
    /\ Silent
    /\ UNCHANGED <<active_jobs, job_logs, procs, fs, names_made, status_vars, follow_vars, build_vars>>

\* a teardown that goes on to the next process in place of the grace period
delete_job_sleep_skipped(t) ==
    /\ pc[t].op = "delete_job" /\ pc[t].at = "sleep"
    /\ NextProcess(t)
    /\ Silent
    /\ UNCHANGED <<active_jobs, job_logs, procs, fs, names_made, teardown, status_vars,
                   follow_vars, build_vars>>

\* time.sleep(2) returns
delete_job_sleep(t) ==
    /\ pc[t].op = "delete_job" /\ pc[t].at = "sleep"
    /\ Note(Current(t), "slept")
    /\ Goto(t, [pc[t] EXCEPT !.at = "poll2"])
    /\ Silent
    /\ UNCHANGED <<active_jobs, job_logs, procs, fs, names_made, status_vars, follow_vars, build_vars>>

\* after the grace period: if process.poll() is None
delete_job_poll2(t) ==
    /\ pc[t].op = "delete_job" /\ pc[t].at = "poll2"
    /\ Note(Current(t), Polled(Current(t)))
    /\ IF StillAlive(Current(t))
       THEN Goto(t, [pc[t] EXCEPT !.at = "kill"])
       ELSE NextProcess(t)
    /\ Silent
    /\ UNCHANGED <<active_jobs, job_logs, procs, fs, names_made, status_vars, follow_vars, build_vars>>

\* os.killpg(os.getpgid(process.pid), SIGKILL); an OSError is swallowed
delete_job_kill(t, delivered) ==
    /\ pc[t].op = "delete_job" /\ pc[t].at = "kill"
    /\ Note(Current(t), IF delivered THEN SIGKILL ELSE "OSError")
    /\ NextProcess(t)
    /\ Silent
    /\ UNCHANGED <<active_jobs, job_logs, procs, fs, names_made, status_vars, follow_vars, build_vars>>

\* the Popen objects something still refers to after the step: a job record of the
\* registry or the process list a delete_job loop holds
Referenced ==
    UNION {{active_jobs'[n].processes[k].process :
               k \in 1..Len(active_jobs'[n].processes)} : n \in DOMAIN active_jobs'}
    \cup UNION {{pc'[t].processes[k] : k \in 1..Len(pc'[t].processes)} :
                   t \in {u \in Threads : pc'[u].op = "delete_job"}}

\* Popen objects nothing refers to any more are gone, and their history with them
Collect ==
    /\ procs' = [p \in Referenced |-> procs[p]]
    /\ teardown' = [p \in Referenced |-> teardown[p]]

\* delete_job that removes the job directory with the registry entry
delete_job_return_rmtree(t) ==
    /\ pc[t].op = "delete_job" /\ pc[t].at = "poll"
    /\ pc[t].i > Len(pc[t].processes)
    /\ IF pc[t].name \in DOMAIN active_jobs
       THEN /\ active_jobs' = DictDel(active_jobs, pc[t].name)
            /\ job_logs' = job_logs \ {pc[t].name}
            /\ fs' = [path \in {q \in DOMAIN fs : q[1] # pc[t].name} |-> fs[path]]
            /\ Return(t, [op |-> "delete_job", outcome |-> "ok", name |-> pc[t].name,
                          teardown |-> [k \in 1..Len(pc[t].processes) |->
                                           teardown[pc[t].processes[k]]]])
       ELSE /\ UNCHANGED <<active_jobs, job_logs, fs>>
            /\ Return(t, [op |-> "delete_job", outcome |-> "KeyError",
                          name |-> pc[t].name])
    /\ Goto(t, Idle)
    /\ Collect
    /\ UNCHANGED <<names_made, status_vars, follow_vars, build_vars>>

\* after the loop: del self._active_jobs[job_name] (KeyError when another thread
\* removed it first), then the _job_logs entry
delete_job_return(t) ==
    /\ pc[t].op = "delete_job" /\ pc[t].at = "poll"
    /\ pc[t].i > Len(pc[t].processes)
    /\ IF pc[t].name \in DOMAIN active_jobs
       THEN /\ active_jobs' = DictDel(active_jobs, pc[t].name)
            /\ job_logs' = job_logs \ {pc[t].name}
            /\ Return(t, [op |-> "delete_job", outcome |-> "ok", name |-> pc[t].name,
                          teardown |-> [k \in 1..Len(pc[t].processes) |->
                                           teardown[pc[t].processes[k]]]])
       ELSE /\ UNCHANGED <<active_jobs, job_logs>>
            /\ Return(t, [op |-> "delete_job", outcome |-> "KeyError",
                          name |-> pc[t].name])
    /\ Goto(t, Idle)
    /\ Collect
    /\ UNCHANGED <<fs, names_made, status_vars, follow_vars, build_vars>>

-----------------------------------------------------------------------------
(* The node processes *)

\* the return codes a running process can end with: its own exit status (0 or 1),
\* or minus the number of a signal that was delivered to its group
ExitCodes(p) ==
    {0, 1}
        \cup (IF \E k \in 1..Len(teardown[p]) : teardown[p][k] = SIGTERM THEN {0 - 15} ELSE {})
        \cup (IF \E k \in 1..Len(teardown[p]) : teardown[p][k] = SIGKILL THEN {0 - 9} ELSE {})

\* a node process terminates; from then on poll() returns its return code
os_process_exit(p, returncode) ==
    /\ p \in DOMAIN procs
    /\ ~procs[p].exited
    /\ returncode \in ExitCodes(p)
    /\ procs' = [procs EXCEPT ![p].exited = TRUE, ![p].returncode = returncode]
    /\ Silent
    /\ UNCHANGED <<active_jobs, job_logs, fs, names_made, pc, teardown, status_vars, follow_vars, build_vars>>

-----------------------------------------------------------------------------
(* get_job_logs, follow=True: _follow_logs and its two tail_file threads *)

\* a tail_file thread that does not run
TailIdle == [at |-> "idle", file |-> <<>>, pos |-> 0, pending |-> <<>>, got |-> <<>>]

\* the logs dict of a get_job_logs call before anything is stored in it
NoLogs == [has |-> FALSE, val |-> <<>>]

\* the index of the first "\n" of s, 0 when it has none
FirstNewline(s) ==
    IF \E k \in 1..Len(s) : s[k] = "\n"
    THEN CHOOSE k \in 1..Len(s) : s[k] = "\n" /\ \A m \in 1..(k - 1) : s[m] # "\n"
    ELSE 0

RECURSIVE splitlines(_)
\* str.splitlines(): the lines of s without their "\n"; no empty last line
splitlines(s) ==
    IF s = <<>> THEN <<>>
    ELSE IF FirstNewline(s) = 0 THEN <<s>>
    ELSE <<SubSeq(s, 1, FirstNewline(s) - 1)>>
            \o splitlines(SubSeq(s, FirstNewline(s) + 1, Len(s)))

\* f.readline() at offset pos: up to and including the next "\n", or what is left
\* of the file when it holds no "\n" after pos; "" at the end of the file
readline(content, pos) ==
    LET rest == SubSeq(content, pos + 1, Len(content))
    IN IF FirstNewline(rest) = 0 THEN rest ELSE SubSeq(rest, 1, FirstNewline(rest))

RECURSIVE rstrip_newline(_)
\* line.rstrip('\n')
rstrip_newline(line) ==
    IF line # <<>> /\ line[Len(line)] = "\n"
    THEN rstrip_newline(SubSeq(line, 1, Len(line) - 1))
    ELSE line

\* logs.get(key, "") + line + "\n": the value about to be stored
Appended(line) == follow_logs.val \o line \o <<"\n">>

\* get_job_logs(job_name, follow=True, step, node_rank): the same lookups as without
\* follow, then _follow_logs starts the two tail_file threads
get_job_logs_follow(t, job_name, step, node_rank) ==
    /\ pc[t] = Idle
    /\ LET call == [op |-> "get_job_logs", follow |-> TRUE, name |-> job_name,
                    node_rank |-> node_rank]
       IN IF job_name \notin DOMAIN active_jobs
          THEN /\ Return(t, JobNotFound("get_job_logs", job_name) @@ call)
               /\ UNCHANGED <<pc, follow_vars>>
          ELSE LET job_info == active_jobs[job_name]
                   i == PyIndex(job_info.processes, node_rank)
               IN IF RankRejected(job_info, node_rank)
                  THEN /\ Return(t, call @@ [outcome |-> "NodeRankNotFound"])
                       /\ UNCHANGED <<pc, follow_vars>>
                  ELSE IF i = 0
                  THEN /\ Return(t, call @@ [outcome |-> "IndexError"])
                       /\ UNCHANGED <<pc, follow_vars>>
                  ELSE /\ Goto(t, call @@ [key |-> <<step, node_rank>>])
                       /\ tail' = [s \in Streams |->
                                     [TailIdle EXCEPT
                                         !.at = "open",
                                         !.file = IF s = "stdout"
                                                  THEN job_info.processes[i].stdout_file
                                                  ELSE job_info.processes[i].stderr_file]]
                       /\ follow_logs' = NoLogs
                       /\ printed' = [s \in Streams |-> <<>>]
                       /\ Silent
    /\ UNCHANGED <<active_jobs, job_logs, procs, fs, names_made, teardown, status_vars,
                   build_vars>>

\* the thread of thread t's follow call that tails stream s is at this place
TailAt(t, s, where) == pc[t].op = "get_job_logs" /\ tail[s].at = where

\* tail_file: nothing to do when the file does not exist; else open it and read
\* what it holds so far
tail_open(t, s) ==
    /\ TailAt(t, s, "open")
    /\ IF tail[s].file \notin DOMAIN fs
       THEN tail' = [tail EXCEPT ![s].at = "done"]
       ELSE tail' = [tail EXCEPT ![s].at = "bulk",
                                 ![s].pos = Len(fs[tail[s].file]),
                                 ![s].pending = splitlines(fs[tail[s].file])]
    /\ Silent
    /\ UNCHANGED <<runner_state, status_vars, build_vars, follow_logs, printed>>

\* the loop over content.splitlines(): print the line and compute the new value of
\* logs[key]; after the last line go on to the follow loop
tail_bulk(t, s) ==
    /\ TailAt(t, s, "bulk")
    /\ IF tail[s].pending = <<>>
       THEN /\ tail' = [tail EXCEPT ![s].at = "readline"]
            /\ UNCHANGED printed
       ELSE /\ printed' = [printed EXCEPT ![s] = Append(@, Head(tail[s].pending))]
            /\ tail' = [tail EXCEPT ![s].at = "bulk_store",
                                    ![s].got = Appended(Head(tail[s].pending)),
                                    ![s].pending = Tail(@)]
    /\ Silent
    /\ UNCHANGED <<runner_state, status_vars, build_vars, follow_logs>>

\* logs[key] = <the value computed>: the store that ends either kind of round
tail_store(t, s) ==
    /\ TailAt(t, s, "bulk_store") \/ TailAt(t, s, "follow_store")
    /\ follow_logs' = [has |-> TRUE, val |-> tail[s].got]
    /\ tail' = [tail EXCEPT ![s].at = IF @ = "bulk_store" THEN "bulk" ELSE "readline",
                            ![s].got = <<>>]
    /\ Silent
    /\ UNCHANGED <<runner_state, status_vars, build_vars, printed>>

\* the follow loop: line = f.readline(); a line is printed and added to logs[key],
\* an empty result leads to the check of the process
tail_readline(t, s) ==
    /\ TailAt(t, s, "readline")
    /\ LET line == readline(fs[tail[s].file], tail[s].pos)
       IN IF line # <<>>
          THEN /\ printed' = [printed EXCEPT ![s] = Append(@, rstrip_newline(line))]
               /\ tail' = [tail EXCEPT ![s].at = "follow_store",
                                       ![s].pos = @ + Len(line),
                                       ![s].got = Appended(rstrip_newline(line))]
          ELSE /\ tail' = [tail EXCEPT ![s].at = "check"]
               /\ UNCHANGED printed
    /\ Silent
    /\ UNCHANGED <<runner_state, status_vars, build_vars, follow_logs>>

\* a follow loop that goes on polling when the job is gone from the registry
TailBreaks_while_registered(job_name, node_rank) ==
    /\ job_name \in DOMAIN active_jobs
    /\ \/ RankRejected(active_jobs[job_name], node_rank)
       \/ PyIndex(active_jobs[job_name].processes, node_rank) = 0
       \/ ~poll_is_None(active_jobs[job_name].processes[
                           PyIndex(active_jobs[job_name].processes, node_rank)].process)

\* does the follow loop end here: the job or the rank is gone from the registry,
\* or process.poll() is not None
TailBreaks(job_name, node_rank) ==
    \/ job_name \notin DOMAIN active_jobs
    \/ RankRejected(active_jobs[job_name], node_rank)
    \/ PyIndex(active_jobs[job_name].processes, node_rank) = 0
    \/ ~poll_is_None(active_jobs[job_name].processes[
                        PyIndex(active_jobs[job_name].processes, node_rank)].process)

\* the else branch of the follow loop: break, or time.sleep(0.1) and read again
tail_check(t, s) ==
    /\ TailAt(t, s, "check")
    /\ IF TailBreaks(pc[t].name, pc[t].node_rank)
       THEN tail' = [tail EXCEPT ![s].at = "done"]
       ELSE tail' = [tail EXCEPT ![s].at = "readline"]
    /\ Silent
    /\ UNCHANGED <<runner_state, status_vars, build_vars, follow_logs, printed>>

\* mutant of get_job_logs_follow_return: stderr_thread is not joined
get_job_logs_follow_return_unjoined(t) ==
    /\ pc[t].op = "get_job_logs"
    /\ tail["stdout"].at = "done"
    /\ Return(t, pc[t] @@ [outcome |-> "ok", logs |-> follow_logs])
    /\ Goto(t, Idle)
    /\ UNCHANGED <<active_jobs, job_logs, procs, fs, names_made, teardown, status_vars,
                   follow_vars, build_vars>>

\* both threads joined: get_job_logs returns the logs dict
get_job_logs_follow_return(t) ==
    /\ pc[t].op = "get_job_logs"
    /\ \A s \in Streams : tail[s].at = "done"
    /\ Return(t, pc[t] @@ [outcome |-> "ok", logs |-> follow_logs])
    /\ Goto(t, Idle)
    /\ UNCHANGED <<active_jobs, job_logs, procs, fs, names_made, teardown, status_vars,
                   follow_vars, build_vars>>

\* the capture files of process p: those of the process_info that holds it
FilesOf(p) ==
    UNION {{[stdout |-> active_jobs[n].processes[j].stdout_file,
             stderr |-> active_jobs[n].processes[j].stderr_file] :
               j \in {k \in 1..Len(active_jobs[n].processes) :
                         active_jobs[n].processes[k].process = p}} :
           n \in DOMAIN active_jobs}

\* a running node process writes one character to its stdout or stderr, which goes
\* to the capture file Popen was given (a file removed since is out of reach of
\* every reader, and writes to it are not followed)
os_process_write(p, s, c) ==
    /\ p \in DOMAIN procs
    /\ poll_is_None(p)
    /\ \E files \in FilesOf(p) :
          /\ files[s] \in DOMAIN fs
          /\ Len(fs[files[s]]) < MaxWrite
          /\ fs' = [fs EXCEPT ![files[s]] = Append(@, c)]
    /\ Silent
    /\ UNCHANGED <<active_jobs, job_logs, procs, names_made, pc, teardown, status_vars,
                   follow_vars, build_vars>>

-----------------------------------------------------------------------------
(* One caller thread *)

\* ProcessJobRunner.__init__: an empty registry; nothing spawned
RunnerInit ==
    /\ active_jobs = <<>>
    /\ job_logs = {}
    /\ procs = <<>>
    /\ fs = <<>>
    /\ names_made = 0
    /\ pc = [t \in Threads |-> Idle]
    /\ ret = NoRet
    /\ teardown = <<>>
    /\ tail = [s \in Streams |-> TailIdle]
    /\ follow_logs = NoLogs
    /\ printed = [s \in Streams |-> <<>>]

\* the input SpecBuild starts from when no build is looked at
NoBuild ==
    [entrypoint |-> <<>>, command |-> <<>>, framework |-> TORCH, shape |-> <<1, 0>>,
     train_job_name |-> 1, python_executable |-> <<"python">>,
     environ |-> [PATH |-> <<"/bin">>]]

Init ==
    /\ RunnerInit
    /\ status_in = <<>>
    /\ status_out = None
    /\ build_in = NoBuild
    /\ build_out = <<>>

\* the runner's part of the state stays as it is
RunnerIdle == UNCHANGED runner_vars

\* every step of a runner call made by thread t
Call(t) ==
    \/ \E kind \in JobKinds, num_nodes \in 0..MaxNodes :
          create_job(t, kind[1], num_nodes, kind[2])
    \/ \E spawned \in BOOLEAN : create_job_spawn(t, spawned)
    \/ create_job_return(t)
    \/ \E job_name \in JobNames : get_job(t, job_name)
    \/ \E runtime_name \in Runtimes \cup {None} : list_jobs(t, runtime_name)
    \/ list_jobs_next(t)
    \/ \E job_name \in JobNames, node_rank \in RankArgs :
          get_job_logs(t, job_name, "node", node_rank)
    \/ \E job_name \in JobNames : delete_job(t, job_name)
    \/ delete_job_poll(t)
    \/ \E delivered \in BOOLEAN : delete_job_term(t, delivered)
    \/ delete_job_sleep(t)
    \/ delete_job_poll2(t)
    \/ \E delivered \in BOOLEAN : delete_job_kill(t, delivered)
    \/ delete_job_return(t)

\* a step of the operating system
Os == \E p \in DOMAIN procs, returncode \in {0, 1, 0 - 15, 0 - 9} : os_process_exit(p, returncode)

Next ==
    \/ Call(1)
    \/ Os

Spec == Init /\ [][Next]_vars

-----------------------------------------------------------------------------
(* A second caller thread that inspects while the first creates jobs *)

\* every step of a create_job call made by thread t
Create(t) ==
    \/ \E kind \in JobKinds, num_nodes \in 0..MaxNodes :
          create_job(t, kind[1], num_nodes, kind[2])
    \/ \E spawned \in BOOLEAN : create_job_spawn(t, spawned)
    \/ create_job_return(t)

\* every step of a get_job or list_jobs call made by thread t
Inspect(t) ==
    \/ \E job_name \in JobNames : get_job(t, job_name)
    \/ \E runtime_name \in Runtimes \cup {None} : list_jobs(t, runtime_name)
    \/ list_jobs_next(t)

\* thread 1 creates jobs, thread 2 inspects; the threads and the processes
\* interleave step by step
NextConc ==
    \/ Create(1)
    \/ Inspect(2)
    \/ Os

SpecConc == Init /\ [][NextConc]_vars

-----------------------------------------------------------------------------
(* Following the logs of a node that writes and exits *)

\* the caller creates one job of one node
FollowCreate(t) ==
    /\ names_made = 0
    /\ create_job(t, TORCH, 1, "rt-a")

\* every step of one of the two tail_file threads of thread t's follow call
TailFile(t) ==
    \/ \E s \in Streams : tail_open(t, s)
    \/ \E s \in Streams : tail_bulk(t, s)
    \/ \E s \in Streams : tail_store(t, s)
    \/ \E s \in Streams : tail_readline(t, s)
    \/ \E s \in Streams : tail_check(t, s)

\* the node process writes
OsWrite == \E p \in DOMAIN procs, s \in Streams, c \in {"x", "\n"} : os_process_write(p, s, c)

\* one caller thread creates a job and follows its logs; the tail_file threads,
\* the node process and the caller interleave step by step
NextFollow ==
    \/ FollowCreate(1)
    \/ \E spawned \in BOOLEAN : create_job_spawn(1, spawned)
    \/ create_job_return(1)
    \/ \E job_name \in JobNames, node_rank \in RankArgs :
          get_job_logs_follow(1, job_name, "node", node_rank)
    \/ TailFile(1)
    \/ get_job_logs_follow_return(1)
    \/ OsWrite
    \/ Os

SpecFollow == Init /\ [][NextFollow]_vars

\* the same, with the tail_file threads and the caller scheduled fairly: a thread
\* that can take a step is not held back for ever
SpecFollowFair ==
    /\ SpecFollow
    /\ \A s \in Streams :
          WF_vars(tail_open(1, s) \/ tail_bulk(1, s) \/ tail_store(1, s)
                     \/ tail_readline(1, s) \/ tail_check(1, s))
    /\ WF_vars(get_job_logs_follow_return(1))

-----------------------------------------------------------------------------
(* Reading the logs of a node that writes and exits *)

\* one caller thread creates a job and reads its logs with follow=False, while the
\* node process writes to its two streams and exits
NextLogs ==
    \/ FollowCreate(1)
    \/ \E spawned \in BOOLEAN : create_job_spawn(1, spawned)
    \/ create_job_return(1)
    \/ \E job_name \in JobNames, node_rank \in RankArgs :
          get_job_logs(1, job_name, "node", node_rank)
    \/ OsWrite
    \/ Os

SpecLogs == Init /\ [][NextLogs]_vars

-----------------------------------------------------------------------------
(* Inspecting a job while it is torn down *)

\* the caller creates one job on the first runtime, of one node or more
NodeCreate(t) ==
    /\ names_made = 0
    /\ \E num_nodes \in 1..MaxNodes : create_job(t, TORCH, num_nodes, "rt-a")

\* every step of a delete_job call made by thread t
Delete(t) ==
    \/ \E job_name \in JobNames : delete_job(t, job_name)
    \/ delete_job_poll(t)
    \/ \E delivered \in BOOLEAN : delete_job_term(t, delivered)
    \/ delete_job_sleep(t)
    \/ delete_job_poll2(t)
    \/ \E delivered \in BOOLEAN : delete_job_kill(t, delivered)
    \/ delete_job_return(t)

\* thread 1 creates a job and deletes it, thread 2 calls get_job; the node
\* processes exit on their own or by the signals of delete_job
NextNode ==
    \/ NodeCreate(1)
    \/ \E spawned \in BOOLEAN : create_job_spawn(1, spawned)
    \/ create_job_return(1)
    \/ Delete(1)
    \/ \E job_name \in JobNames : get_job(2, job_name)
    \/ Os

SpecNode == Init /\ [][NextNode]_vars

-----------------------------------------------------------------------------
(* Reading logs that are missing or cannot be read *)

\* somebody outside the runner removes a capture file
os_unlink(path) ==
    /\ path \in DOMAIN fs
    /\ Len(path) = 3
    /\ fs' = [q \in DOMAIN fs \ {path} |-> fs[q]]
    /\ Silent
    /\ UNCHANGED <<active_jobs, job_logs, procs, names_made, pc, teardown, status_vars,
                   follow_vars, build_vars>>

\* as NextLogs, and the capture files may be removed or be unreadable
NextRead ==
    \/ NextLogs
    \/ \E job_name \in JobNames, node_rank \in RankArgs :
          get_job_logs_read_error(1, job_name, "node", node_rank)
    \/ \E path \in DOMAIN fs : os_unlink(path)

SpecRead == Init /\ [][NextRead]_vars

-----------------------------------------------------------------------------
(* Following the logs of a job that another caller deletes *)

\* every step of a delete_job call that thread t makes for the job whose logs
\* thread u is following
DeleteFollowed(t, u) ==
    \/ pc[u].op = "get_job_logs" /\ delete_job(t, pc[u].name)
    \/ delete_job_poll(t)
    \/ \E delivered \in BOOLEAN : delete_job_term(t, delivered)
    \/ delete_job_sleep(t)
    \/ delete_job_poll2(t)
    \/ \E delivered \in BOOLEAN : delete_job_kill(t, delivered)
    \/ delete_job_return(t)

\* thread 1 creates a job of one node and follows its logs, thread 2 deletes the
\* job meanwhile; the node process writes empty lines; the tail_file threads,
\* the node process and the callers interleave step by step
NextFollowDelete ==
    \/ FollowCreate(1)
    \/ \E spawned \in BOOLEAN : create_job_spawn(1, spawned)
    \/ create_job_return(1)
    \/ \E job_name \in JobNames : get_job_logs_follow(1, job_name, "node", 0)
    \/ TailFile(1)
    \/ get_job_logs_follow_return(1)
    \/ DeleteFollowed(2, 1)
    \/ \E p \in DOMAIN procs, s \in Streams : os_process_write(p, s, "\n")
    \/ Os

\* with the tail_file threads and the following caller scheduled fairly
SpecFollowDelete ==
    /\ Init /\ [][NextFollowDelete]_vars
    /\ \A s \in Streams :
          WF_vars(tail_open(1, s) \/ tail_bulk(1, s) \/ tail_store(1, s)
                     \/ tail_readline(1, s) \/ tail_check(1, s))
    /\ WF_vars(get_job_logs_follow_return(1))

-----------------------------------------------------------------------------
(* Two callers delete *)

\* thread 1 creates a job of one node and deletes jobs, thread 2 deletes jobs;
\* the callers and the node process interleave step by step
NextDeleteTwice ==
    \/ FollowCreate(1)
    \/ \E spawned \in BOOLEAN : create_job_spawn(1, spawned)
    \/ create_job_return(1)
    \/ Delete(1)
    \/ Delete(2)
    \/ Os

SpecDeleteTwice == Init /\ [][NextDeleteTwice]_vars

-----------------------------------------------------------------------------
(* Every operation on a job whose node writes *)

\* one caller thread creates a job of one node, inspects it, reads and follows its
\* logs and deletes it, while the node process writes to its two streams and exits
NextFiles ==
    \/ FollowCreate(1)
    \/ \E spawned \in BOOLEAN : create_job_spawn(1, spawned)
    \/ create_job_return(1)
    \/ Inspect(1)
    \/ \E job_name \in JobNames, node_rank \in RankArgs :
          get_job_logs(1, job_name, "node", node_rank)
    \/ \E job_name \in JobNames, node_rank \in RankArgs :
          get_job_logs_follow(1, job_name, "node", node_rank)
    \/ TailFile(1)
    \/ get_job_logs_follow_return(1)
    \/ Delete(1)
    \/ OsWrite
    \/ Os

SpecFiles == Init /\ [][NextFiles]_vars

-----------------------------------------------------------------------------
(* _get_job_status on its own *)

NodeStatuses == {"running", "exited", "failed"}

\* a fresh runner, and any status sequence up to the bound as the input
InitStatus ==
    /\ RunnerInit
    /\ status_in \in UNION {[1..n -> NodeStatuses] : n \in 0..MaxStatusLen}
    /\ status_out = None
    /\ build_in = NoBuild
    /\ build_out = <<>>

\* the call _get_job_status(containers)
call_get_job_status ==
    /\ status_out = None
    /\ status_out' = _get_job_status(status_in)
    /\ UNCHANGED <<status_in, build_vars>>
    /\ RunnerIdle

SpecStatus == InitStatus /\ [][call_get_job_status]_vars

-----------------------------------------------------------------------------
(* The builds of _start_node_process on their own *)

\* the entrypoints callers pass
Entrypoints ==
    {<<>>,
     <<<<"bash">>, <<"-c">>>>,
     <<<<TORCHRUN>>>>,
     <<<<TORCHRUN>>, <<"--standalone">>>>,
     <<<<"python">>>>}

\* the commands callers pass: none; scripts for bash -c (the usual one, one with
\* leading blanks and two launcher calls, one whose launcher call has no quote
\* after it, one that does not start with read -r -d, one whose text ends in
\* .py); a .py script with an argument; another program
Commands ==
    {<<>>,
     <<<<READ_R_D, SPACE, TORCHRUN, SPACE, QUOTE, "w", QUOTE>>>>,
     <<<<READ_R_D, SPACE, TORCHRUN, SPACE, QUOTE, "w", DOT_PY>>>>,
     <<<<SPACE, READ_R_D, SPACE, TORCHRUN, SPACE, QUOTE, TORCHRUN, SPACE, QUOTE>>>>,
     <<<<READ_R_D, SPACE, TORCHRUN, SPACE, "w">>>>,
     <<<<"w", SPACE, TORCHRUN, SPACE, QUOTE>>>>,
     <<<<"w", DOT_PY>>, <<"--lr">>>>,
     <<<<"w">>>>}

\* the interpreters a runner is configured with: the default and another
Interpreters == {<<"python">>, <<"/opt/py">>}

\* what os.environ holds: nothing of interest, or values for variables the
\* runner sets itself
Environs ==
    {[PATH |-> <<"/bin">>],
     [PATH |-> <<"/bin">>, RANK |-> <<"7">>, LOCAL_NODE_RANK_LABEL |-> <<"7">>]}

\* the arguments of _start_node_process and what it reads besides them
BuildInputs ==
    [entrypoint : Entrypoints,
     command : Commands,
     framework : {TORCH, TORCHTUNE},
     shape : {nr \in (1..MaxNodes) \X (0..(MaxNodes - 1)) : nr[2] < nr[1]},
     train_job_name : JobNames,
     python_executable : Interpreters,
     environ : Environs]

\* a fresh runner, and any input of the build
InitBuild ==
    /\ RunnerInit
    /\ status_in = <<>>
    /\ status_out = None
    /\ build_in \in BuildInputs
    /\ build_out = <<>>

\* _start_node_process builds full_command and env: what Popen is handed
call_start_node_process ==
    /\ build_out = <<>>
    /\ build_out' = <<[argv |-> full_command(build_in.entrypoint, build_in.command,
                                             build_in.shape[1], build_in.shape[2]),
                       env |-> process_env(build_in.framework, build_in.shape[1],
                                           build_in.shape[2], build_in.train_job_name)]>>
    /\ UNCHANGED <<build_in, runner_vars, status_vars>>

NextBuild == call_start_node_process

SpecBuild == InitBuild /\ [][NextBuild]_vars

-----------------------------------------------------------------------------
(* Properties *)

\* the j-th process_info of a registered job
Node(n, j) == active_jobs[n].processes[j]

\* C1: when create_job returns a name, the job's record holds exactly num_nodes
\* process_infos, the one at index i has rank i and its own process, and its two
\* log files exist, are named after the job and its rank, and belong to no other
\* node of the job.
C1_OneProcessPerRank ==
    (ret.op = "create_job" /\ ret.outcome = "ok") =>
        /\ ret.name \in DOMAIN active_jobs
        /\ Len(active_jobs[ret.name].processes) = active_jobs[ret.name].num_nodes
        /\ \A j \in 1..Len(active_jobs[ret.name].processes) :
              /\ Node(ret.name, j).node_rank = j - 1
              /\ Node(ret.name, j).process \in DOMAIN procs
              /\ Node(ret.name, j).stdout_file = <<ret.name, j - 1, "stdout">>
              /\ Node(ret.name, j).stderr_file = <<ret.name, j - 1, "stderr">>
              /\ Node(ret.name, j).stdout_file \in DOMAIN fs
              /\ Node(ret.name, j).stderr_file \in DOMAIN fs
              /\ \A k \in 1..Len(active_jobs[ret.name].processes) :
                    k # j =>
                       /\ Node(ret.name, k).process # Node(ret.name, j).process
                       /\ {Node(ret.name, k).stdout_file, Node(ret.name, k).stderr_file}
                             \cap {Node(ret.name, j).stdout_file,
                                   Node(ret.name, j).stderr_file} = {}

\* create_job has just returned a job of MaxNodes nodes of the second framework
C1_Witness ==
    /\ ret.op = "create_job" /\ ret.outcome = "ok"
    /\ active_jobs[ret.name].num_nodes = MaxNodes
    /\ active_jobs[ret.name].framework = TORCHTUNE

\* the job status the aggregation rule of the specification gives
StatusByPrecedence(statuses) ==
    IF statuses = <<>> THEN "pending"
    ELSE IF "failed" \in {statuses[i] : i \in 1..Len(statuses)} THEN "failed"
    ELSE IF "running" \in {statuses[i] : i \in 1..Len(statuses)} THEN "running"
    ELSE "succeeded"

\* C2: for every status sequence over running/exited/failed, _get_job_status gives
\* pending for the empty one, failed if any is failed, else running if any is
\* running, else succeeded.
C2_AggregationPrecedence ==
    status_out # None =>
        /\ status_out = StatusByPrecedence(status_in)
        /\ (status_in = <<"running", "failed">> => status_out = "failed")
        /\ (status_in = <<"running", "exited">> => status_out = "running")
        /\ (status_in = <<"exited", "exited">> => status_out = "succeeded")

\* the rule was applied to a sequence holding all three statuses
C2_Witness ==
    /\ status_out = "failed"
    /\ {status_in[i] : i \in 1..Len(status_in)} = NodeStatuses

\* C3: the status get_job computes for a job (and stores in its record) never
\* changes once it is succeeded or failed.
C3_StatusMonotonic ==
    [][\A n \in DOMAIN active_jobs \cap DOMAIN active_jobs' :
          active_jobs[n].status \in {"succeeded", "failed"} =>
             active_jobs'[n].status = active_jobs[n].status]_vars

\* a job was seen failed while one of its nodes was still running, and that node
\* has exited with 0 since
C3_Witness ==
    \E n \in DOMAIN active_jobs :
        /\ active_jobs[n].status = "failed"
        /\ \E j \in 1..Len(active_jobs[n].processes) :
              /\ Node(n, j).status = "running"
              /\ _get_process_status(Node(n, j).process) = "exited"

\* C4: what delete_job does to one process: SIGTERM goes to a process polled alive
\* and is the first signal; SIGKILL comes only after a delivered SIGTERM, the end
\* of the grace sleep and a second poll that found it alive; a process polled
\* terminated at the loop head gets no signal.
C4_GracefulThenForceful ==
    \A p \in DOMAIN teardown :
        LET h == teardown[p]
        IN /\ \A k \in 1..Len(h) :
                 /\ h[k] = SIGTERM => (k = 2 /\ h[1] = "alive")
                 /\ h[k] = SIGKILL =>
                       (k = 5 /\ h[2] = SIGTERM /\ h[3] = "slept" /\ h[4] = "alive")
                 /\ h[k] = "slept" => (k = 3 /\ h[2] = SIGTERM)
           /\ (Len(h) >= 1 /\ h[1] = "dead") => Len(h) = 1
           /\ (Len(h) >= 4 /\ h[4] = "dead") => Len(h) = 4

\* a process got SIGTERM, outlived the grace period and got SIGKILL
C4_Witness ==
    \E p \in DOMAIN teardown :
        teardown[p] = <<"alive", SIGTERM, "slept", "alive", SIGKILL>>

\* C5: a delete_job that found its job registered ends only by returning
\* normally with the registry entry (and the _job_logs entry) removed, whatever it
\* met on the way; no name enters the registry a second time; and get_job,
\* get_job_logs and delete_job on a name that is not registered raise the
\* not-found error, while list_jobs returns registered jobs only.
C5_DeleteAlwaysRemoves ==
    [][/\ \A t \in Threads :
             (pc[t].op = "delete_job" /\ pc'[t] = Idle) =>
                 /\ ret'.op = "delete_job" /\ ret'.outcome = "ok"
                 /\ ret'.name = pc[t].name /\ ret'.thread = t
                 /\ pc[t].name \in DOMAIN active_jobs
                 /\ pc[t].name \notin DOMAIN active_jobs'
                 /\ pc[t].name \notin job_logs'
                 /\ \A k \in 1..Len(pc[t].processes) : Len(ret'.teardown[k]) >= 1
       /\ \A n \in DOMAIN active_jobs' \ DOMAIN active_jobs : n > names_made
       /\ (ret'.op \in {"get_job", "get_job_logs", "delete_job"}
             /\ ret'.name \notin DOMAIN active_jobs) => ret'.outcome = "JobNotFound"
       /\ ret'.op = "list_jobs" =>
             \A k \in 1..Len(ret'.jobs) : ret'.jobs[k].name \in DOMAIN active_jobs
      ]_vars

\* delete_job has just returned for a job of two nodes: one had already
\* terminated, the SIGTERM for the other could not be delivered
C5_Witness ==
    /\ ret.op = "delete_job" /\ ret.outcome = "ok"
    /\ ret.name \notin DOMAIN active_jobs
    /\ Len(ret.teardown) = 2
    /\ ret.teardown[1] = <<"dead">>
    /\ ret.teardown[2] = <<"alive", "OSError">>

\* C6: a create_job that raises the unsupported-framework error changes nothing:
\* registry, _job_logs, processes, files and directories, names handed out; it is
\* raised for a framework other than TORCH and TORCHTUNE, and no job of such a
\* framework is ever registered.
C6_UnsupportedFrameworkNoEffect ==
    [][/\ (ret'.op = "create_job" /\ ret'.outcome = "UnsupportedFramework") =>
             /\ ret'.framework \notin {TORCH, TORCHTUNE}
             /\ UNCHANGED <<active_jobs, job_logs, procs, fs, names_made, teardown, pc>>
       /\ \A n \in DOMAIN active_jobs' :
             active_jobs'[n].framework \in {TORCH, TORCHTUNE}
      ]_vars

\* create_job has just turned a framework away while a job was registered and
\* its process running
C6_Witness ==
    /\ ret.op = "create_job" /\ ret.outcome = "UnsupportedFramework"
    /\ \E n \in DOMAIN active_jobs :
          /\ Len(active_jobs[n].processes) >= 1
          /\ poll_is_None(Node(n, 1).process)

\* C7: get_job, get_job_logs and delete_job on a name absent from the registry
\* raise the not-found error and change nothing: no job record, no registry key,
\* no signal, no process, no file.
C7_AbsentNameNoEffect ==
    [][(ret'.op \in {"get_job", "get_job_logs", "delete_job"}
          /\ ret'.name \notin DOMAIN active_jobs) =>
             /\ ret'.outcome = "JobNotFound"
             /\ UNCHANGED <<active_jobs, job_logs, procs, fs, names_made, teardown, pc>>
      ]_vars

\* delete_job has just raised not-found while another job was registered and its
\* process running
C7_Witness ==
    /\ ret.op = "delete_job" /\ ret.outcome = "JobNotFound"
    /\ \E n \in DOMAIN active_jobs :
          /\ Len(active_jobs[n].processes) >= 1
          /\ poll_is_None(Node(n, 1).process)

\* C8: get_job_logs on a registered job raises the rank-not-found error for every
\* node_rank outside 0..len(processes)-1, negative ones included, and when it
\* returns the files read are those of the node of that rank.
C8_InvalidRankRejected ==
    (ret.op = "get_job_logs" /\ ret.name \in DOMAIN active_jobs) =>
        /\ ret.node_rank \notin 0..(Len(active_jobs[ret.name].processes) - 1) =>
              ret.outcome = "NodeRankNotFound"
        /\ ret.outcome = "ok" =>
              /\ ret.node_rank \in 0..(Len(active_jobs[ret.name].processes) - 1)
              /\ ret.stdout_file = <<ret.name, ret.node_rank, "stdout">>
              /\ ret.stderr_file = <<ret.name, ret.node_rank, "stderr">>

\* C9: while a thread is inside create_job for a job, no get_job that returns and
\* no list_jobs entry gathered by another thread shows that job with fewer
\* containers than its num_nodes.
C9_NoPartialRecordObserved ==
    \A t \in Threads :
        pc[t].op = "create_job" =>
            /\ (ret.op = "get_job" /\ ret.outcome = "ok" /\ ret.name = pc[t].name) =>
                  Len(ret.job.containers) = pc[t].num_nodes
            /\ \A u \in Threads :
                  pc[u].op = "list_jobs" =>
                     \A k \in 1..Len(pc[u].jobs) :
                        pc[u].jobs[k].name = pc[t].name =>
                           Len(pc[u].jobs[k].containers) = pc[t].num_nodes

\* the process of the node a returned get_job_logs call was about
FollowedProcess ==
    active_jobs[ret.name].processes[
        PyIndex(active_jobs[ret.name].processes, ret.node_rank)].process

\* C10: when a follow call returns for a node whose process has terminated, no
\* complete line of either capture file is left unread by that stream's tail_file
\* thread: everything past the thread's file offset is free of "\n".
C10_FollowDeliversAllLines ==
    (ret.op = "get_job_logs" /\ ret.follow /\ ret.outcome = "ok"
        /\ ret.name \in DOMAIN active_jobs
        /\ ~poll_is_None(FollowedProcess)) =>
        \A s \in Streams :
            \A k \in (tail[s].pos + 1)..Len(fs[tail[s].file]) :
                fs[tail[s].file][k] # "\n"

\* thread t is inside a follow call for a node whose process has terminated
FollowingExited(t) ==
    /\ pc[t].op = "get_job_logs"
    /\ pc[t].name \in DOMAIN active_jobs
    /\ TailBreaks(pc[t].name, pc[t].node_rank)

\* C11: a follow call returns only in a step taken when both tail_file threads
\* have finished, and once the followed process has terminated the call
\* eventually returns.
C11_FollowBlocksThenReturns ==
    /\ [][(ret'.op = "get_job_logs" /\ ret'.follow /\ ret'.outcome = "ok") =>
             \A s \in Streams : tail[s].at = "done" /\ tail'[s].at = "done"]_vars
    /\ \A t \in Threads : FollowingExited(t) ~> (pc[t] = Idle)

\* a follow call has just returned after its threads printed a line of each stream
\* of a process that has terminated
C11_Witness ==
    /\ ret.op = "get_job_logs" /\ ret.follow /\ ret.outcome = "ok"
    /\ ~poll_is_None(FollowedProcess)
    /\ \A s \in Streams : tail[s].at = "done" /\ Len(printed[s]) >= 1

\* how many separators a log text holds
Separators(logs) == Cardinality({k \in 1..Len(logs) : logs[k] = STDERR_SEPARATOR})

\* C12: get_job_logs(follow=False) returns one key, (step, node_rank), whose text
\* is the stdout file's content alone, without separator, when the stderr file is
\* empty, and the stdout content, one separator, the stderr content, in that
\* order, when it is not.
C12_CombinedLogsFormat ==
    (ret.op = "get_job_logs" /\ ~ret.follow /\ ret.outcome = "ok") =>
        /\ ret.key = <<"node", ret.node_rank>>
        /\ fs[ret.stderr_file] = <<>> =>
              (ret.logs = fs[ret.stdout_file] /\ Separators(ret.logs) = 0)
        /\ fs[ret.stderr_file] # <<>> =>
              /\ ret.logs = fs[ret.stdout_file] \o <<STDERR_SEPARATOR>> \o fs[ret.stderr_file]
              /\ Separators(ret.logs) = 1
              /\ ret.logs[Len(fs[ret.stdout_file]) + 1] = STDERR_SEPARATOR

\* logs were read of a node that had written to both streams, and of one that had
\* written to stdout only
C12_Witness ==
    /\ ret.op = "get_job_logs" /\ ~ret.follow /\ ret.outcome = "ok"
    /\ Len(fs[ret.stdout_file]) = MaxWrite
    /\ Len(fs[ret.stderr_file]) = MaxWrite
    /\ Separators(ret.logs) = 1

\* the status the specification gives a node whose process is p
StatusOfProcess(p) ==
    IF ~procs[p].exited THEN "running"
    ELSE IF procs[p].returncode = 0 THEN "exited"
    ELSE "failed"

\* C13: every container get_job returns has the status of its process: running
\* when it has not terminated, exited for return code 0, failed for any other
\* return code, the negative ones of a signal included; and a node whose stored
\* status is exited or failed is derived with that same status from then on.
C13_NodeStatusDerivation ==
    /\ (ret.op = "get_job" /\ ret.outcome = "ok" /\ ret.name \in DOMAIN active_jobs) =>
          /\ Len(ret.job.containers) = Len(active_jobs[ret.name].processes)
          /\ \A i \in 1..Len(ret.job.containers) :
                /\ ret.job.containers[i].status = StatusOfProcess(Node(ret.name, i).process)
                /\ procs[Node(ret.name, i).process].exited
                      /\ procs[Node(ret.name, i).process].returncode < 0 =>
                         ret.job.containers[i].status = "failed"
    /\ \A n \in DOMAIN active_jobs :
          \A j \in 1..Len(active_jobs[n].processes) :
             Node(n, j).status \in {"exited", "failed"} =>
                _get_process_status(Node(n, j).process) = Node(n, j).status

\* get_job has just reported a node failed whose process was ended by the SIGTERM
\* of a delete_job under way
C13_Witness ==
    /\ ret.op = "get_job" /\ ret.outcome = "ok" /\ ret.name \in DOMAIN active_jobs
    /\ \E i \in 1..Len(ret.job.containers) :
          /\ ret.job.containers[i].status = "failed"
          /\ procs[Node(ret.name, i).process].returncode = 0 - 15

\* the processes of a registered job
ProcessesOf(n) == {Node(n, j).process : j \in 1..Len(active_jobs[n].processes)}

\* C14: when get_job returns for a job that holds all its N >= 1 nodes, the
\* status returned (and stored) is running if no process has failed and one has
\* not terminated, and succeeded if all N have exited with 0, whatever status the
\* registry held before.
C14_StatusRecomputedOnGet ==
    (ret.op = "get_job" /\ ret.outcome = "ok"
        /\ active_jobs[ret.name].num_nodes >= 1
        /\ Len(active_jobs[ret.name].processes) = active_jobs[ret.name].num_nodes) =>
        /\ ((\A p \in ProcessesOf(ret.name) : StatusOfProcess(p) # "failed")
               /\ (\E p \in ProcessesOf(ret.name) : StatusOfProcess(p) = "running")) =>
              ret.job.status = "running"
        /\ (\A p \in ProcessesOf(ret.name) : StatusOfProcess(p) = "exited") =>
              ret.job.status = "succeeded"
        /\ active_jobs[ret.name].status = ret.job.status

\* get_job has just reported succeeded for a job of MaxNodes nodes
C14_Witness ==
    /\ ret.op = "get_job" /\ ret.outcome = "ok"
    /\ active_jobs[ret.name].num_nodes = MaxNodes
    /\ Len(active_jobs[ret.name].processes) = MaxNodes
    /\ ret.job.status = "succeeded"

\* the names of the entries of a list_jobs result
ListedNames(jobs) == {jobs[k].name : k \in 1..Len(jobs)}

\* C15: when list_jobs returns, its entries are the registered jobs whose
\* runtime_name equals the filter (all of them for None), one entry each; every
\* entry's status is the aggregate of its containers' statuses as polled during
\* the call: a container reported exited or failed has that status, one reported
\* running had not terminated when polled, and the registry holds the same status.
C15_ListJobsFiltered ==
    (ret.op = "list_jobs" /\ ret.outcome = "ok") =>
        /\ ListedNames(ret.jobs) =
              {n \in DOMAIN active_jobs :
                  ret.runtime_name = None \/ active_jobs[n].runtime_name = ret.runtime_name}
        /\ Cardinality(ListedNames(ret.jobs)) = Len(ret.jobs)
        /\ \A k \in 1..Len(ret.jobs) :
              LET job == ret.jobs[k]
              IN /\ job.runtime_name = active_jobs[job.name].runtime_name
                 /\ job.status = _get_job_status(Statuses(job.containers))
                 /\ job.status = active_jobs[job.name].status
                 /\ Len(job.containers) = Len(active_jobs[job.name].processes)
                 /\ \A i \in 1..Len(job.containers) :
                       \/ job.containers[i].status = StatusOfProcess(Node(job.name, i).process)
                       \/ /\ job.containers[i].status = "running"
                          /\ procs[Node(job.name, i).process].exited

\* list_jobs filtered by the first runtime has just returned one of two
\* registered jobs
C15_Witness ==
    /\ ret.op = "list_jobs" /\ ret.outcome = "ok"
    /\ ret.runtime_name = "rt-a"
    /\ Cardinality(DOMAIN active_jobs) = 2
    /\ Len(ret.jobs) = 1
    /\ Len(ret.jobs[1].containers) = 1

\* _start_node_process has built the command and the environment of build_in
Built == build_out # <<>>

\* the argv of a rebuilt launcher call, as the specification gives it
ModuleStyleLauncher(num_nodes, node_rank, command) ==
    <<build_in.python_executable, <<"-m">>, <<"torch.distributed.run">>,
      <<"--nproc_per_node=1">>,
      <<"--nnodes=">> \o str(num_nodes),
      <<"--node_rank=">> \o str(node_rank),
      <<"--master_addr=localhost">>,
      <<"--master_port=", "2", "9", "5", "0", "0">>>> \o command

\* C16: for an entrypoint whose first token is torchrun, the argv built for N
\* nodes and rank r is the interpreter, -m torch.distributed.run, the flags
\* --nproc_per_node=1 --nnodes=N --node_rank=r --master_addr=localhost
\* --master_port=29500, then the command; --nnodes=2 --node_rank=1 for N=2, r=1.
C16_BareLauncherRebuilt ==
    (Built /\ build_in.entrypoint # <<>> /\ build_in.entrypoint[1] = <<TORCHRUN>>) =>
        /\ build_out[1].argv =
              ModuleStyleLauncher(build_in.shape[1], build_in.shape[2], build_in.command)
        /\ build_in.shape = <<2, 1>> =>
              /\ build_out[1].argv[5] = <<"--nnodes=", "2">>
              /\ build_out[1].argv[6] = <<"--node_rank=", "1">>

\* the environment the j-th node of a registered job was spawned with
EnvOf(n, j) == procs[Node(n, j).process].env

\* n written in decimal, for the numbers the model uses
Decimal(n) == <<CASE n = 0 -> "0" [] n = 1 -> "1" [] n = 2 -> "2" [] n = 3 -> "3"
                  [] n = 4 -> "4" [] OTHER -> "?">>

\* C17: the node of rank r of a registered TORCH job of N nodes was spawned with
\* NNODES=N, NPROC_PER_NODE=1, NODE_RANK=r, RANK=r, LOCAL_RANK=0, WORLD_SIZE=N,
\* MASTER_ADDR=localhost, MASTER_PORT=29500; the RANK values of the nodes of a
\* job are pairwise distinct, and they are those of 0..N-1 once create_job has
\* returned its name.
C17_TorchEnvironment ==
    \A n \in DOMAIN active_jobs :
        active_jobs[n].framework = TORCH =>
            /\ \A j \in 1..Len(active_jobs[n].processes) :
                  /\ EnvOf(n, j).NNODES = Decimal(active_jobs[n].num_nodes)
                  /\ EnvOf(n, j).NPROC_PER_NODE = <<"1">>
                  /\ EnvOf(n, j).NODE_RANK = Decimal(j - 1)
                  /\ EnvOf(n, j).RANK = Decimal(j - 1)
                  /\ EnvOf(n, j).LOCAL_RANK = <<"0">>
                  /\ EnvOf(n, j).WORLD_SIZE = Decimal(active_jobs[n].num_nodes)
                  /\ EnvOf(n, j).MASTER_ADDR = <<"localhost">>
                  /\ EnvOf(n, j).MASTER_PORT = <<"2", "9", "5", "0", "0">>
                  /\ \A k \in 1..Len(active_jobs[n].processes) :
                        k # j => EnvOf(n, k).RANK # EnvOf(n, j).RANK
            /\ (ret.op = "create_job" /\ ret.outcome = "ok" /\ ret.name = n) =>
                  {EnvOf(n, j).RANK : j \in 1..Len(active_jobs[n].processes)}
                     = {Decimal(r) : r \in 0..(active_jobs[n].num_nodes - 1)}

\* create_job has just returned a TORCH job of MaxNodes nodes, the last of them
\* spawned with RANK = MaxNodes - 1
C17_Witness ==
    /\ ret.op = "create_job" /\ ret.outcome = "ok"
    /\ active_jobs[ret.name].framework = TORCH
    /\ Len(active_jobs[ret.name].processes) = MaxNodes
    /\ EnvOf(ret.name, MaxNodes).RANK = Decimal(MaxNodes - 1)

\* no thread is inside create_job for job n
Created(n) == \A t \in Threads : ~(pc[t].op = "create_job" /\ pc[t].name = n)

\* C19: get_job on a registered job returns a job, and when the spawn of a node
\* of that job failed (the record holds fewer nodes than num_nodes after
\* create_job ended), the job returned has a container for that node, with
\* status failed.
C19_FailedStartReported ==
    /\ (ret.op = "get_job" /\ ret.name \in DOMAIN active_jobs) => ret.outcome = "ok"
    /\ (ret.op = "get_job" /\ ret.outcome = "ok" /\ Created(ret.name)
           /\ Len(active_jobs[ret.name].processes) < active_jobs[ret.name].num_nodes) =>
          /\ Len(ret.job.containers) > Len(active_jobs[ret.name].processes)
          /\ ret.job.containers[Len(active_jobs[ret.name].processes) + 1].status = "failed"

\* C20: once create_job has ended for a job, by returning or by raising, the
\* job's record holds num_nodes nodes in every state, the node at index i being
\* the one of rank i; so no later operation changes the length, the order or the
\* ranks of the sequence.
C20_NodeSequenceFixed ==
    \A n \in DOMAIN active_jobs :
        Created(n) =>
            /\ Len(active_jobs[n].processes) = active_jobs[n].num_nodes
            /\ \A j \in 1..Len(active_jobs[n].processes) : Node(n, j).node_rank = j - 1

\* create_job returned the name n: no thread is inside create_job for n and the
\* spawn loop ran to its end (a spawn that raises leaves fewer nodes than
\* num_nodes in the record)
Completed(n) ==
    /\ Created(n)
    /\ Len(active_jobs[n].processes) = active_jobs[n].num_nodes

\* C21: a get_job or a list_jobs never reports status pending for a job whose
\* create_job has returned, whatever num_nodes was accepted, 0 included.
C21_NoPendingAfterCreate ==
    /\ (ret.op = "get_job" /\ ret.outcome = "ok" /\ Completed(ret.name)) =>
          ret.job.status # "pending"
    /\ (ret.op = "list_jobs" /\ ret.outcome = "ok") =>
          \A k \in 1..Len(ret.jobs) :
             Completed(ret.jobs[k].name) => ret.jobs[k].status # "pending"

\* the nodes of job n were spawned in rank order: the one at index j has rank
\* j - 1 and its process was started with that rank in its environment
SpawnedInOrder(n) ==
    \A j \in 1..Len(active_jobs[n].processes) :
       /\ Node(n, j).node_rank = j - 1
       /\ procs[Node(n, j).process].env[LOCAL_NODE_RANK_LABEL] = Decimal(j - 1)

\* C22: inside create_job the nodes are spawned one at a time in increasing rank
\* order (while the call is at rank r the record holds exactly the nodes of ranks
\* 0..r-1, and a round of the loop moves from r to r + 1), the stored status is
\* Starting as long as the call is spawning, and the name is returned only
\* after all of the ranks 0..num_nodes-1 were spawned, with the stored status Running.
C22_SpawnOrderThenRunning ==
    [][\A t \in Threads, n \in JobNames :
          /\ (pc'[t].op = "create_job" /\ pc'[t].name = n) =>
                /\ active_jobs'[n].status = "Starting"
                /\ Len(active_jobs'[n].processes) = pc'[t].node_rank
                /\ SpawnedInOrder(n)'
          /\ (pc[t].op = "create_job" /\ pc[t].name = n /\ pc'[t].op = "create_job"
                /\ pc'[t] # pc[t]) =>
                /\ pc'[t].name = n
                /\ pc'[t].node_rank = pc[t].node_rank + 1
          /\ (pc[t].op = "create_job" /\ ret'.op = "create_job" /\ ret'.thread = t
                /\ ret'.outcome = "ok" /\ ret'.name = n) =>
                /\ pc[t].node_rank = pc[t].num_nodes
                /\ Len(active_jobs'[n].processes) = active_jobs'[n].num_nodes
                /\ SpawnedInOrder(n)'
                /\ active_jobs'[n].status = "Running"]_vars

C22_Witness ==
    /\ ret.op = "create_job" /\ ret.outcome = "ok"
    /\ active_jobs[ret.name].status = "Running"
    /\ Len(active_jobs[ret.name].processes) = MaxNodes
    /\ SpawnedInOrder(ret.name)

\* the input of the build is a shell call, bash -c with a script
ShellInput ==
    /\ build_in.entrypoint = <<<<"bash">>, <<"-c">>>>
    /\ build_in.command # <<>>

\* the script of a shell call names the launcher binary
ReferencesLauncher ==
    \E i \in 1..Len(build_in.command[1]) : build_in.command[1][i] = TORCHRUN

\* the script of a shell call opens, after blanks, with read -r -d
OpensWithRead ==
    \E i \in 1..Len(build_in.command[1]) :
       /\ build_in.command[1][i] = READ_R_D
       /\ \A k \in 1..(i - 1) : build_in.command[1][k] = SPACE

\* the first token of the entrypoint is the launcher binary
LauncherInput ==
    /\ build_in.entrypoint # <<>>
    /\ build_in.entrypoint[1] = <<TORCHRUN>>

\* the first token of the command ends in .py
ScriptInput ==
    /\ build_in.command # <<>>
    /\ build_in.command[1] # <<>>
    /\ build_in.command[1][Len(build_in.command[1])] = DOT_PY

\* the argv is a shell call: bash, -c and one script
ShellArgv ==
    /\ Len(build_out[1].argv) = 3
    /\ build_out[1].argv[1] = <<"bash">>
    /\ build_out[1].argv[2] = <<"-c">>

C24_PlainScriptPrefixed ==
    (Built /\ ~(ShellInput /\ ReferencesLauncher) /\ ~LauncherInput /\ ScriptInput) =>
        build_out[1].argv = <<build_in.python_executable>> \o build_in.command

\* the script s with every launcher token replaced by the module-style call of
\* the interpreter, and nothing else changed
RECURSIVE LauncherSubstituted(_)
LauncherSubstituted(s) ==
    IF s = <<>> THEN <<>>
    ELSE (IF Head(s) = TORCHRUN
          THEN build_in.python_executable \o <<SPACE, "-m", SPACE, "torch.distributed.run">>
          ELSE <<Head(s)>>)
         \o LauncherSubstituted(Tail(s))

\* C25: for a bash -c call whose script names the launcher binary, the argv is
\* bash, -c and the script with the launcher token replaced by the module-style
\* call of the interpreter: the new script does not name the launcher binary
\* any more and differs from the original at the replaced token only.
C25_WrappedShellSubstituted ==
    (Built /\ ShellInput /\ ReferencesLauncher) =>
        /\ ShellArgv
        /\ build_out[1].argv[3] = LauncherSubstituted(build_in.command[1])
        /\ \A i \in 1..Len(build_out[1].argv[3]) : build_out[1].argv[3][i] # TORCHRUN

\* the variables the runner sets itself for a framework
RunnerVariables(framework) ==
    {CONTAINER_TRAIN_JOB_NAME_LABEL, LOCAL_NODE_RANK_LABEL}
    \cup (IF framework = TORCH
          THEN {"NNODES", "NPROC_PER_NODE", "NODE_RANK", "MASTER_ADDR", "MASTER_PORT",
                "RANK", "LOCAL_RANK", "WORLD_SIZE"}
          ELSE {})

\* C26: for both frameworks and every rank, the environment built for a node
\* holds the job-name variable with the job's name and the node-rank variable
\* with the decimal rank, whatever the base environment held for them, and
\* every other variable of the base environment that the runner does not set
\* itself is still there with its value.
C26_JobVariablesOverBase ==
    Built =>
        /\ DOMAIN build_in.environ \cup {CONTAINER_TRAIN_JOB_NAME_LABEL, LOCAL_NODE_RANK_LABEL}
              \subseteq DOMAIN build_out[1].env
        /\ build_out[1].env[CONTAINER_TRAIN_JOB_NAME_LABEL] = <<build_in.train_job_name>>
        /\ build_out[1].env[LOCAL_NODE_RANK_LABEL] = Decimal(build_in.shape[2])
        /\ \A k \in DOMAIN build_in.environ \ RunnerVariables(build_in.framework) :
              build_out[1].env[k] = build_in.environ[k]

C26_Witness ==
    /\ Built
    /\ build_in.framework = TORCHTUNE
    /\ build_in.shape = <<MaxNodes, MaxNodes - 1>>
    /\ LOCAL_NODE_RANK_LABEL \in DOMAIN build_in.environ
    /\ build_in.environ[LOCAL_NODE_RANK_LABEL] # build_out[1].env[LOCAL_NODE_RANK_LABEL]
    /\ build_out[1].env.RANK = build_in.environ.RANK
    /\ build_out[1].env.PATH = <<"/bin">>

\* thread t is inside create_job before or after the step
CreateStep ==
    \E t \in Threads : pc[t].op = "create_job" \/ pc'[t].op = "create_job"

\* the step is a write of a running node process: no caller moved or returned,
\* and one capture file of a registered node grew by one character
ProcessWrote ==
    /\ pc' = pc
    /\ ret' = NoRet
    /\ \E n \in DOMAIN active_jobs :
          \E j \in 1..Len(active_jobs[n].processes) :
             \E path \in {Node(n, j).stdout_file, Node(n, j).stderr_file} :
                /\ poll_is_None(Node(n, j).process)
                /\ path \in DOMAIN fs
                /\ \E c \in {"x", "\n"} : fs' = [fs EXCEPT ![path] = Append(@, c)]

\* C27: the log files are written by the node processes only: a step of
\* delete_job, get_job, list_jobs or get_job_logs (with follow or without)
\* leaves the job directories and every log file as they are, content included;
\* the files change only by a write of a running node process or inside
\* create_job, and no directory or file ever goes away; when delete_job
\* returns, the directory and the files of the deleted job are still there.
C27_LogsWrittenByNodesOnly ==
    [][/\ fs' = fs \/ ProcessWrote \/ CreateStep
       /\ DOMAIN fs \subseteq DOMAIN fs'
       /\ \A t \in Threads :
             pc[t].op \in {"delete_job", "list_jobs", "get_job_logs"} => (fs' = fs \/ ProcessWrote)
       /\ ret'.op \in {"delete_job", "get_job", "list_jobs", "get_job_logs"} => fs' = fs
       /\ (ret'.op = "delete_job" /\ ret'.outcome = "ok" /\ ret # ret') =>
             \A j \in 1..Len(active_jobs[ret'.name].processes) :
                /\ JobDir(ret'.name) \in DOMAIN fs'
                /\ Node(ret'.name, j).stdout_file \in DOMAIN fs'
                /\ Node(ret'.name, j).stderr_file \in DOMAIN fs']_vars

\* delete_job returned for a job whose node had written to its capture file
C27_Witness ==
    /\ ret.op = "delete_job" /\ ret.outcome = "ok"
    /\ ret.name \notin DOMAIN active_jobs
    /\ <<ret.name, 0, "stdout">> \in DOMAIN fs
    /\ Len(fs[<<ret.name, 0, "stdout">>]) = MaxWrite
    /\ printed["stdout"] # <<>>

\* create_job ended for job n with a spawn that raised: the record holds fewer
\* nodes than num_nodes
PartlySpawned(n) ==
    /\ n \in DOMAIN active_jobs
    /\ Created(n)
    /\ Len(active_jobs[n].processes) < active_jobs[n].num_nodes

\* a list_jobs without filter that has returned holds every partly spawned job,
\* with one container per node that was spawned
PartlySpawnedListed ==
    (ret.op = "list_jobs" /\ ret.outcome = "ok" /\ ret.runtime_name = None) =>
       \A n \in DOMAIN active_jobs :
          PartlySpawned(n) =>
             \E k \in 1..Len(ret.jobs) :
                /\ ret.jobs[k].name = n
                /\ Len(ret.jobs[k].containers) = Len(active_jobs[n].processes)

\* C28: when the spawn of rank k raises inside create_job, the call ends with
\* that error and nothing is taken back: the job stays registered with exactly
\* the k nodes spawned before, these get no signal and their processes are left
\* as they are; no node is added to a job after its create_job ended; list_jobs
\* shows the partly spawned job and delete_job removes it.
C28_SpawnFailureNoRollback ==
    [][/\ \A t \in Threads, n \in JobNames :
             (pc[t].op = "create_job" /\ pc[t].name = n /\ ret'.op = "create_job"
                /\ ret'.thread = t /\ ret'.outcome = "OSError") =>
                /\ ret'.name = n
                /\ pc'[t] = Idle
                /\ n \in DOMAIN active_jobs'
                /\ Len(active_jobs'[n].processes) = pc[t].node_rank
                /\ active_jobs'[n].processes = active_jobs[n].processes
                /\ procs' = procs
                /\ teardown' = teardown
       /\ \A n \in DOMAIN active_jobs \cap DOMAIN active_jobs' :
             Created(n) =>
                /\ Len(active_jobs'[n].processes) = Len(active_jobs[n].processes)
                /\ \A j \in 1..Len(active_jobs[n].processes) :
                      active_jobs'[n].processes[j].process = Node(n, j).process
       /\ PartlySpawnedListed'
       /\ \A t \in Threads, n \in JobNames :
             (pc[t].op = "delete_job" /\ pc[t].name = n /\ PartlySpawned(n)
                /\ ret'.op = "delete_job" /\ ret'.thread = t) =>
                /\ ret'.outcome = "ok"
                /\ n \notin DOMAIN active_jobs']_vars

\* list_jobs shows a job of which rank 0 was spawned and runs and rank 1 failed
\* to start
C28_Witness ==
    /\ ret.op = "list_jobs" /\ ret.outcome = "ok" /\ ret.runtime_name = None
    /\ \E k \in 1..Len(ret.jobs) :
          /\ PartlySpawned(ret.jobs[k].name)
          /\ active_jobs[ret.jobs[k].name].num_nodes = 2
          /\ Len(ret.jobs[k].containers) = 1
          /\ ret.jobs[k].containers[1].status = "running"
          /\ teardown[Node(ret.jobs[k].name, 1).process] = <<>>

\* what a capture file holds for a reader: nothing when it is missing
CaptureContent(path) == IF path \in DOMAIN fs THEN fs[path] ELSE <<>>

\* C29: get_job_logs without follow on a registered job and a rank of that job
\* always returns the dict, with the one key step-rank: when a capture file
\* cannot be read the value is a text that starts with "Error reading logs: ",
\* else the value is the combined content, where a missing file counts as empty
\* (with both files missing the value is empty and never the error text); the
\* call leaves the registry, the processes and the files as they are.
C29_ReadFailureIsText ==
    [][(/\ ret'.op = "get_job_logs" /\ ~ret'.follow
        /\ ret'.name \in DOMAIN active_jobs
        /\ ret'.node_rank \in 0..(Len(active_jobs[ret'.name].processes) - 1)) =>
          /\ ret'.outcome = "ok"
          /\ ret'.key = <<"node", ret'.node_rank>>
          /\ \/ /\ Len(ret'.logs) = 2
                /\ ret'.logs[1] = "Error reading logs: "
                /\ \E path \in {ret'.stdout_file, ret'.stderr_file} : path \in DOMAIN fs
             \/ ret'.logs = (CaptureContent(ret'.stdout_file)
                               \o (IF CaptureContent(ret'.stderr_file) = <<>> THEN <<>>
                                   ELSE <<STDERR_SEPARATOR>>
                                           \o CaptureContent(ret'.stderr_file)))
          /\ UNCHANGED <<active_jobs, job_logs, procs, fs, pc>>]_vars

\* the logs of a node whose stdout file is gone and whose stderr file holds
\* output could not be read
C29_Witness ==
    /\ ret.op = "get_job_logs" /\ ~ret.follow /\ ret.outcome = "ok"
    /\ ret.logs = <<"Error reading logs: ", READ_EXCEPTION>>
    /\ ret.stdout_file \notin DOMAIN fs
    /\ fs[ret.stderr_file] # <<>>
    /\ ret.name \in DOMAIN active_jobs

\* the nodes of the registered jobs, as <<job name, index>>
Nodes ==
    UNION {{<<n, j>> : j \in 1..Len(active_jobs[n].processes)} : n \in DOMAIN active_jobs}

\* the two capture paths of the node x
CapturePaths(x) == {Node(x[1], x[2]).stdout_file, Node(x[1], x[2]).stderr_file}

\* no process is held by two nodes, of one job or of two, and no capture path
\* belongs to two nodes
OwnedOnce ==
    \A x, y \in Nodes :
       x # y =>
          /\ Node(x[1], x[2]).process # Node(y[1], y[2]).process
          /\ CapturePaths(x) \cap CapturePaths(y) = {}

\* C30: no process handle is held by two jobs or twice by one job, and no
\* capture path is assigned to two node processes, over all the jobs the runner
\* ever created: among the registered nodes handles and paths are pairwise
\* different, and a node that is added to a job gets a process no node holds
\* and two paths that no job, registered or deleted, has ever used.
C30_ExclusiveOwnership ==
    [][/\ OwnedOnce'
       /\ \A n \in DOMAIN active_jobs' :
             (n \in DOMAIN active_jobs
                /\ Len(active_jobs'[n].processes) = Len(active_jobs[n].processes) + 1) =>
                LET node == active_jobs'[n].processes[Len(active_jobs'[n].processes)]
                IN /\ node.process \notin DOMAIN procs
                   /\ node.stdout_file \notin DOMAIN fs
                   /\ node.stderr_file \notin DOMAIN fs
                   /\ node.stdout_file # node.stderr_file]_vars

\* a job of two nodes is registered after another job, which had a node, was
\* deleted
C30_Witness ==
    /\ Cardinality(Nodes) = 2
    /\ \E x \in Nodes : x[2] = 2
    /\ \E n \in JobNames : n \notin DOMAIN active_jobs /\ <<n, 0, "stdout">> \in DOMAIN fs

\* C31: the name create_job generates is not the name of a registered job: the
\* insert of create_job adds one entry to the registry and leaves every entry
\* that was there as it was, the rest of the call adds and removes none, and
\* the name returned is that of the entry added.
C31_NamesUnique ==
    [][\A t \in Threads, n \in JobNames :
          /\ (pc[t] = Idle /\ pc'[t].op = "create_job" /\ pc'[t].name = n) =>
                /\ n \notin DOMAIN active_jobs
                /\ DOMAIN active_jobs' = DOMAIN active_jobs \cup {n}
                /\ Cardinality(DOMAIN active_jobs') = Cardinality(DOMAIN active_jobs) + 1
                /\ \A m \in DOMAIN active_jobs : active_jobs'[m] = active_jobs[m]
          /\ (pc[t].op = "create_job" /\ pc[t].name = n) =>
                /\ DOMAIN active_jobs' = DOMAIN active_jobs
                /\ (ret'.op = "create_job" /\ ret'.thread = t /\ ret'.outcome = "ok") =>
                      (ret'.name = n /\ n \in DOMAIN active_jobs')]_vars

\* a second job was created while the first was registered
C31_Witness ==
    /\ ret.op = "create_job" /\ ret.outcome = "ok"
    /\ DOMAIN active_jobs = {1, 2}
    /\ ret.name = 2
    /\ active_jobs[1].processes # <<>>

\* how many lines a log text holds: each store appends one line and its "\n"
LinesIn(text) == Cardinality({k \in 1..Len(text) : text[k] = "\n"})

\* C32: under every interleaving of the two tail_file threads, each line one of
\* them recorded is in the text the follow call returns: the text holds as many
\* lines as the two threads recorded together, none is lost to a store of the
\* other thread.
C32_NoAppendOverwritten ==
    (ret.op = "get_job_logs" /\ ret.follow /\ ret.outcome = "ok") =>
        LinesIn(ret.logs.val) = Len(printed["stdout"]) + Len(printed["stderr"])

\* thread t is inside a follow call for a job that is not registered any more
FollowingDeleted(t) ==
    /\ pc[t].op = "get_job_logs"
    /\ pc[t].name \notin DOMAIN active_jobs

\* C33: when the job of a follow call in progress is removed from the registry,
\* a tail_file thread that finds no line to read and comes to its check stops
\* there, whatever the state of the process, the follow call returns in the end,
\* and it returns its logs without raising.
C33_FollowEndsOnDelete ==
    /\ [][\A t \in Threads, s \in Streams :
             /\ (FollowingDeleted(t) /\ tail[s].at = "check" /\ tail'[s] # tail[s]) =>
                   tail'[s].at = "done"
             /\ (pc[t].op = "get_job_logs" /\ ret'.op = "get_job_logs" /\ ret'.thread = t) =>
                   ret'.outcome = "ok"]_vars
    /\ \A t \in Threads : FollowingDeleted(t) ~> (pc[t] = Idle)

\* the follow call returned the lines it read of a job that was deleted under it
C33_Witness ==
    /\ ret.op = "get_job_logs" /\ ret.follow /\ ret.outcome = "ok"
    /\ ret.name \notin DOMAIN active_jobs
    /\ pc[2] = Idle
    /\ \A s \in Streams : Len(printed[s]) >= 1

\* C34: a list_jobs that runs while another caller creates or deletes jobs always
\* returns its list, under every interleaving: it ends with no error, and every
\* job in the list is one the runner has created.
C34_ListJobsNeverFails ==
    ret.op = "list_jobs" =>
        /\ ret.outcome = "ok"
        /\ \A k \in 1..Len(ret.jobs) : ret.jobs[k].name \in 1..names_made

\* how often the history of process p holds the entry what
Times(p, what) == Cardinality({k \in 1..Len(teardown[p]) : teardown[p][k] = what})

\* process p belongs to a node of a registered job
OfRegisteredJob(p) ==
    \E n \in DOMAIN active_jobs :
       \E j \in 1..Len(active_jobs[n].processes) : Node(n, j).process = p

\* C35: a signal is sent to a node process only while its job is registered,
\* no process is sent SIGTERM twice, and a delete_job ends with success or with
\* the not-found error, also when two delete_job calls for one name overlap;
\* the call that ends with success is the one that removed the entry.
C35_SignalsForRegisteredJobsOnly ==
    [][/\ \A p \in DOMAIN teardown \cap DOMAIN teardown' :
             (Times(p, SIGTERM)' > Times(p, SIGTERM) \/ Times(p, SIGKILL)' > Times(p, SIGKILL)) =>
                OfRegisteredJob(p)
       /\ \A p \in DOMAIN teardown' : Times(p, SIGTERM)' <= 1
       /\ \A t \in Threads :
             (pc[t].op = "delete_job" /\ ret'.op = "delete_job" /\ ret'.thread = t) =>
                /\ ret'.outcome \in {"ok", "JobNotFound"}
                /\ ret'.outcome = "ok" =>
                      (pc[t].name \in DOMAIN active_jobs
                         /\ pc[t].name \notin DOMAIN active_jobs')]_vars

\* the step belongs to a get_job, list_jobs or get_job_logs call: it returns
\* from one, or a caller is inside one before or after it
InspectionStep ==
    \/ ret'.op \in {"get_job", "list_jobs", "get_job_logs"}
    \/ \E t \in Threads : pc[t].op \in {"list_jobs", "get_job_logs"}
    \/ \E t \in Threads : pc'[t].op \in {"list_jobs", "get_job_logs"}

\* the job record without the cached statuses, of the job and of its nodes
Membership(job_info) ==
    [creation_timestamp |-> job_info.creation_timestamp,
     runtime_name |-> job_info.runtime_name,
     framework |-> job_info.framework,
     num_nodes |-> job_info.num_nodes,
     job_dir |-> job_info.job_dir,
     nodes |-> [j \in 1..Len(job_info.processes) |->
                  <<job_info.processes[j].process, job_info.processes[j].node_rank,
                    job_info.processes[j].stdout_file, job_info.processes[j].stderr_file>>]]

\* C36: a step of get_job, list_jobs or get_job_logs (with follow or without)
\* adds no registry entry and removes none, leaves every job's node sequence,
\* creation timestamp, runtime name and framework as they are and sends no
\* signal; what it may change in the registry are the cached statuses.
C36_InspectionKeepsMembership ==
    [][InspectionStep =>
          /\ DOMAIN active_jobs' = DOMAIN active_jobs
          /\ job_logs' = job_logs
          /\ \A n \in DOMAIN active_jobs :
                Membership(active_jobs[n])' = Membership(active_jobs[n])
          /\ teardown' = teardown]_vars

\* get_job has just replaced the cached status of a job whose node failed
C36_Witness ==
    /\ ret.op = "get_job" /\ ret.outcome = "ok"
    /\ ret.job.status = "failed"
    /\ active_jobs[ret.name].status = "failed"
    /\ active_jobs[ret.name].processes[1].status = "failed"
    /\ active_jobs[ret.name].creation_timestamp = ret.job.creation_timestamp

\* the histories of a process delete_job is done with
TornDown ==
    {<<"dead">>,
     <<"alive", "OSError">>,
     <<"alive", SIGTERM, "slept", "dead">>,
     <<"alive", SIGTERM, "slept", "alive", SIGKILL>>,
     <<"alive", SIGTERM, "slept", "alive", "OSError">>}

\* the grace period of process p is pending: SIGTERM sent, the sleep not over
GracePending(p) == teardown[p] # <<>> /\ teardown[p][Len(teardown[p])] = SIGTERM

\* C37: while a delete_job is at the k-th node of its job, the job is registered,
\* the nodes are taken in rank order, the teardown of every node before the k-th
\* is complete and no later node has been polled or signalled; at most one
\* grace period is pending at any moment; and a get_job for the job that
\* returns meanwhile returns the job.
C37_TeardownInRankOrder ==
    /\ \A t \in Threads :
          pc[t].op = "delete_job" =>
             /\ pc[t].name \in DOMAIN active_jobs
             /\ Len(pc[t].processes) = Len(active_jobs[pc[t].name].processes)
             /\ \A k \in 1..Len(pc[t].processes) :
                   /\ Node(pc[t].name, k).process = pc[t].processes[k]
                   /\ Node(pc[t].name, k).node_rank = k - 1
                   /\ k < pc[t].i => teardown[pc[t].processes[k]] \in TornDown
                   /\ k > pc[t].i => teardown[pc[t].processes[k]] = <<>>
             /\ (ret.op = "get_job" /\ ret.name = pc[t].name) => ret.outcome = "ok"
    /\ Cardinality({p \in DOMAIN teardown : GracePending(p)}) <= 1

\* delete_job has sent SIGTERM to the second node after it had to kill the first
C37_Witness ==
    \E t \in Threads :
       /\ pc[t].op = "delete_job" /\ pc[t].i = 2 /\ pc[t].at = "sleep"
       /\ teardown[pc[t].processes[1]] = <<"alive", SIGTERM, "slept", "alive", SIGKILL>>
       /\ GracePending(pc[t].processes[2])
       /\ ret.op = "get_job" /\ ret.outcome = "ok"

\* the variables of the distributed-training environment
DistributedVariables ==
    {"NNODES", "NPROC_PER_NODE", "NODE_RANK", "RANK", "LOCAL_RANK", "WORLD_SIZE",
     "MASTER_ADDR", "MASTER_PORT"}

\* C38: jobs of both frameworks get registered, and every node of a registered
\* TORCHTUNE job was spawned with the job-name variable and the node-rank
\* variable set to its job and rank, and with no distributed-training variable
\* added to what the base environment holds.
C38_TorchtuneWithoutDistributedEnv ==
    /\ \A n \in DOMAIN active_jobs : active_jobs[n].framework \in {TORCH, TORCHTUNE}
    /\ \A n \in DOMAIN active_jobs :
          active_jobs[n].framework = TORCHTUNE =>
             \A j \in 1..Len(active_jobs[n].processes) :
                /\ EnvOf(n, j)[CONTAINER_TRAIN_JOB_NAME_LABEL] = <<n>>
                /\ EnvOf(n, j)[LOCAL_NODE_RANK_LABEL] = Decimal(j - 1)
                /\ DOMAIN EnvOf(n, j) =
                      DOMAIN os_environ
                         \cup {CONTAINER_TRAIN_JOB_NAME_LABEL, LOCAL_NODE_RANK_LABEL}
                /\ \A k \in DistributedVariables \cap DOMAIN EnvOf(n, j) :
                      k \in DOMAIN os_environ /\ EnvOf(n, j)[k] = os_environ[k]

\* create_job has just returned a TORCHTUNE job with a node while a TORCH job is
\* registered
C38_Witness ==
    /\ ret.op = "create_job" /\ ret.outcome = "ok"
    /\ active_jobs[ret.name].framework = TORCHTUNE
    /\ Len(active_jobs[ret.name].processes) >= 1
    /\ "RANK" \notin DOMAIN EnvOf(ret.name, 1)
    /\ \E n \in DOMAIN active_jobs : active_jobs[n].framework = TORCH

\* the sequence a is the beginning of the sequence b
IsPrefix(a, b) == Len(a) <= Len(b) /\ \A k \in 1..Len(a) : a[k] = b[k]

\* C39: during a follow call and when it returns, what the tail_file thread of a
\* stream has recorded are the first lines of the stream's file, in file order
\* and once each: no line is recorded twice, out of order, or in two pieces
\* because the bulk read (or a readline) ended in the middle of a line that
\* was still being written.
C39_LinesRecordedOnce ==
    \A t \in Threads :
       (\/ pc[t].op = "get_job_logs"
        \/ (ret.op = "get_job_logs" /\ ret.follow /\ ret.outcome = "ok" /\ ret.thread = t)) =>
          \A s \in Streams :
             tail[s].file \in DOMAIN fs =>
                IsPrefix(printed[s], splitlines(fs[tail[s].file]))

====
